---- MODULE Spec2Model ----
(***************************************************************************)
(* Model of the financial-data normalization pipeline                      *)
(* (services/parser.js): JSON parsing, flat-record classification, record  *)
(* cleaning and assembly of the canonical structure.                       *)
(*                                                                         *)
(* JavaScript values are tagged records.  Objects and arrays live in a     *)
(* heap (a sequence of cells) and are handled through references, so that  *)
(* aliasing and in-place mutation are visible.                             *)
(***************************************************************************)
EXTENDS Integers, Sequences, FiniteSets, TLC

(***************************************************************************)
(* Bounds of the model.                                                    *)
(***************************************************************************)
MaxKeys == 2       \* heuristic field names per classified record
MaxFields == 2     \* fields per cleaned record
MaxRecords == 2    \* records per flat input / per category sequence

(***************************************************************************)
(* JavaScript values.                                                      *)
(***************************************************************************)
Undef == [t |-> "undefined"]
Null == [t |-> "null"]
NaN == [t |-> "nan"]
Bool(b) == [t |-> "boolean", b |-> b]
Str(s) == [t |-> "string", s |-> s]
\* the number m / 10^e, kept canonical: e = 0 or m is not a multiple of 10
Dec(m, e) == [t |-> "number", m |-> m, e |-> e]
Num(n) == Dec(n, 0)
Ref(a) == [t |-> "ref", addr |-> a]
\* literals, before they are allocated in the heap
PArr(a) == [t |-> "parr", a |-> a]
PObj(o) == [t |-> "pobj", o |-> o]
\* heap cells
ArrCell(a) == [t |-> "array", a |-> a]
ObjCell(o) == [t |-> "object", o |-> o]

EmptyObj == [k \in {} |-> Undef]

\* outcome of a call: a value or a thrown Error, and the heap it leaves
Return(h, v) == [h |-> h, thrown |-> FALSE, v |-> v, msg |-> ""]
Throw(h, m) == [h |-> h, thrown |-> TRUE, v |-> Undef, msg |-> m]

Alloc(h, cell) == [h |-> Append(h, cell), r |-> Ref(Len(h) + 1)]

IsRef(v) == v.t = "ref"
IsArray(h, v) == IsRef(v) /\ h[v.addr].t = "array"
IsObject(h, v) == IsRef(v) /\ h[v.addr].t = "object"
IsNullish(v) == v.t \in {"undefined", "null"}

\* ToBoolean
Truthy(v) ==
  CASE v.t \in {"undefined", "null", "nan"} -> FALSE
    [] v.t = "boolean" -> v.b
    [] v.t = "string" -> v.s # ""
    [] v.t = "number" -> v.m # 0
    [] OTHER -> TRUE

\* typeof v
TypeOf(v) ==
  CASE v.t = "undefined" -> "undefined"
    [] v.t = "boolean" -> "boolean"
    [] v.t = "string" -> "string"
    [] v.t \in {"number", "nan"} -> "number"
    [] OTHER -> "object"

\* v.k for a value v that is not null or undefined
GetProp(h, v, k) ==
  CASE v.t = "ref" ->
         LET cell == h[v.addr] IN
         IF cell.t = "array"
           THEN (IF k = "length" THEN Num(Len(cell.a)) ELSE Undef)
           ELSE (IF k \in DOMAIN cell.o THEN cell.o[k] ELSE Undef)
    [] v.t = "string" -> (IF k = "length" THEN Num(Len(v.s)) ELSE Undef)
    [] OTHER -> Undef

\* v?.length
OptLength(h, v) == IF IsNullish(v) THEN Undef ELSE GetProp(h, v, "length")

\* Object.keys(v): own enumerable property names
RECURSIVE IndexKeys(_)
Digit == <<"0", "1", "2", "3", "4", "5", "6", "7", "8", "9">>
IndexKeys(n) == IF n = 0 THEN {} ELSE IndexKeys(n - 1) \cup {Digit[n]}
ObjectKeys(h, v) ==
  CASE v.t = "ref" ->
         LET cell == h[v.addr] IN
         IF cell.t = "array" THEN IndexKeys(Len(cell.a)) ELSE DOMAIN cell.o
    [] v.t = "string" -> IndexKeys(Len(v.s))
    [] OTHER -> {}

(***************************************************************************)
(* Strings.                                                                *)
(***************************************************************************)
\* s.charAt(i): the empty string outside the string
CharAt(s, i) == IF i >= 1 /\ i <= Len(s) THEN SubSeq(s, i, i) ELSE ""

LowerChar(c) ==
  CASE c = "A" -> "a" [] c = "B" -> "b" [] c = "C" -> "c" [] c = "D" -> "d"
    [] c = "E" -> "e" [] c = "F" -> "f" [] c = "G" -> "g" [] c = "H" -> "h"
    [] c = "I" -> "i" [] c = "J" -> "j" [] c = "K" -> "k" [] c = "L" -> "l"
    [] c = "M" -> "m" [] c = "N" -> "n" [] c = "O" -> "o" [] c = "P" -> "p"
    [] c = "Q" -> "q" [] c = "R" -> "r" [] c = "S" -> "s" [] c = "T" -> "t"
    [] c = "U" -> "u" [] c = "V" -> "v" [] c = "W" -> "w" [] c = "X" -> "x"
    [] c = "Y" -> "y" [] c = "Z" -> "z" [] OTHER -> c

RECURSIVE ToLowerCase(_)
ToLowerCase(s) ==
  IF s = "" THEN ""
  ELSE LowerChar(CharAt(s, 1)) \o ToLowerCase(SubSeq(s, 2, Len(s)))

\* s.includes(sub)
Includes(s, sub) ==
  \E i \in 1..(Len(s) - Len(sub) + 1) : SubSeq(s, i, i + Len(sub) - 1) = sub

IsWhiteSpace(c) == c \in {" ", "\t", "\n", "\r"}

RECURSIVE TrimStart(_)
TrimStart(s) ==
  IF s # "" /\ IsWhiteSpace(CharAt(s, 1))
    THEN TrimStart(SubSeq(s, 2, Len(s))) ELSE s

RECURSIVE TrimEnd(_)
TrimEnd(s) ==
  IF s # "" /\ IsWhiteSpace(CharAt(s, Len(s)))
    THEN TrimEnd(SubSeq(s, 1, Len(s) - 1)) ELSE s

\* s.trim()
Trim(s) == TrimEnd(TrimStart(s))

IsDigit(c) == c \in {"0", "1", "2", "3", "4", "5", "6", "7", "8", "9"}

DigitVal(c) == CHOOSE d \in 0..9 : Digit[d + 1] = c

\* first position at or after i of s that holds no digit
RECURSIVE SkipDigits(_, _)
SkipDigits(s, i) ==
  IF i <= Len(s) /\ IsDigit(CharAt(s, i)) THEN SkipDigits(s, i + 1) ELSE i

\* the test without its end anchor: /^-?\d+\.?\d*/
NumericTest_Unanchored(s) ==
  LET i0 == IF Len(s) >= 1 /\ CharAt(s, 1) = "-" THEN 2 ELSE 1
  IN  SkipDigits(s, i0) > i0

\* /^-?\d+\.?\d*$/.test(s)
NumericTest(s) ==
  LET i0 == IF Len(s) >= 1 /\ CharAt(s, 1) = "-" THEN 2 ELSE 1
      i1 == SkipDigits(s, i0)
      i2 == IF i1 <= Len(s) /\ CharAt(s, i1) = "." THEN i1 + 1 ELSE i1
      i3 == SkipDigits(s, i2)
  IN  i1 > i0 /\ i3 = Len(s) + 1

\* value of the digit string s[i..j] read after the value acc
RECURSIVE DigitsValue(_, _, _, _)
DigitsValue(s, i, j, acc) ==
  IF i > j THEN acc ELSE DigitsValue(s, i + 1, j, 10 * acc + DigitVal(CharAt(s, i)))

\* the canonical form of m / 10^e
RECURSIVE Canon(_, _)
Canon(m, e) == IF e > 0 /\ m % 10 = 0 THEN Canon(m \div 10, e - 1) ELSE Dec(m, e)

RECURSIVE Pow10(_)
Pow10(n) == IF n = 0 THEN 1 ELSE 10 * Pow10(n - 1)

\* parseFloat(s): the longest prefix of the trimmed string that is a decimal
\* literal (sign, digits, fraction, exponent), NaN when there is none
ParseFloat(s) ==
  LET u == TrimStart(s)
      neg == CharAt(u, 1) = "-"
      i0 == IF CharAt(u, 1) \in {"-", "+"} THEN 2 ELSE 1
      i1 == SkipDigits(u, i0)
      hasDot == CharAt(u, i1) = "."
      i2 == IF hasDot THEN SkipDigits(u, i1 + 1) ELSE i1
      fracLen == IF hasDot THEN i2 - i1 - 1 ELSE 0
      intPart == DigitsValue(u, i0, i1 - 1, 0)
      mant == IF hasDot THEN DigitsValue(u, i1 + 1, i2 - 1, intPart) ELSE intPart
      x0 == IF CharAt(u, i2 + 1) \in {"-", "+"} THEN i2 + 2 ELSE i2 + 1
      x1 == SkipDigits(u, x0)
      hasExp == CharAt(u, i2) \in {"e", "E"} /\ x1 > x0
      exp == IF ~hasExp THEN 0
             ELSE IF CharAt(u, i2 + 1) = "-" THEN 0 - DigitsValue(u, x0, x1 - 1, 0)
             ELSE DigitsValue(u, x0, x1 - 1, 0)
      c == IF exp >= fracLen THEN Canon(mant * Pow10(exp - fracLen), 0)
           ELSE Canon(mant, fracLen - exp)
  IN  IF i1 = i0 /\ i2 <= i1 + 1 THEN NaN
      ELSE IF neg THEN Dec(0 - c.m, c.e) ELSE c

(***************************************************************************)
(* Literals and the heap.                                                  *)
(***************************************************************************)
\* allocate the literal p (as evaluating an object literal or JSON.parse does)
RECURSIVE Store(_, _)
RECURSIVE StoreSeq(_, _, _)
RECURSIVE StoreFields(_, _, _)
StoreSeq(h, a, acc) ==
  IF a = << >> THEN [h |-> h, vs |-> acc]
  ELSE LET s == Store(h, Head(a)) IN StoreSeq(s.h, Tail(a), Append(acc, s.r))
StoreFields(h, o, acc) ==
  IF DOMAIN o = DOMAIN acc THEN [h |-> h, o |-> acc]
  ELSE LET k == CHOOSE x \in DOMAIN o \ DOMAIN acc : TRUE
           s == Store(h, o[k])
       IN  StoreFields(s.h, o, (k :> s.r) @@ acc)
Store(h, p) ==
  CASE p.t = "parr" -> LET s == StoreSeq(h, p.a, << >>) IN Alloc(s.h, ArrCell(s.vs))
    [] p.t = "pobj" -> LET s == StoreFields(h, p.o, EmptyObj) IN Alloc(s.h, ObjCell(s.o))
    [] OTHER -> [h |-> h, r |-> p]

\* the literal that the value v denotes in heap h
RECURSIVE Deref(_, _)
Deref(h, v) ==
  IF ~IsRef(v) THEN v
  ELSE LET cell == h[v.addr] IN
       IF cell.t = "array"
         THEN PArr([i \in 1..Len(cell.a) |-> Deref(h, cell.a[i])])
         ELSE PObj([k \in DOMAIN cell.o |-> Deref(h, cell.o[k])])

(***************************************************************************)
(* JSON.parse, for JSON text without string escapes and exponents.         *)
(***************************************************************************)
Fail == [ok |-> FALSE, v |-> Undef, n |-> 0]
Ok(v, n) == [ok |-> TRUE, v |-> v, n |-> n]

StartsWith(s, i, lit) ==
  i + Len(lit) - 1 <= Len(s) /\ SubSeq(s, i, i + Len(lit) - 1) = lit

RECURSIVE SkipWs(_, _)
SkipWs(s, i) ==
  IF i <= Len(s) /\ IsWhiteSpace(CharAt(s, i)) THEN SkipWs(s, i + 1) ELSE i

\* position of the closing quote of the string that opens before position i
RECURSIVE ClosingQuote(_, _)
ClosingQuote(s, i) ==
  IF i > Len(s) \/ CharAt(s, i) \in {"\\", "\n", "\t", "\r"} THEN 0
  ELSE IF CharAt(s, i) = "\"" THEN i
  ELSE ClosingQuote(s, i + 1)

ParseString(s, i) ==
  IF CharAt(s, i) # "\"" THEN Fail
  ELSE LET j == ClosingQuote(s, i + 1) IN
       IF j = 0 THEN Fail ELSE Ok(Str(SubSeq(s, i + 1, j - 1)), j + 1)

ParseNumber(s, i) ==
  LET i0 == IF CharAt(s, i) = "-" THEN i + 1 ELSE i
      i1 == SkipDigits(s, i0)
      hasFrac == CharAt(s, i1) = "."
      i2 == IF hasFrac THEN SkipDigits(s, i1 + 1) ELSE i1
  IN  IF i1 = i0 \/ (CharAt(s, i0) = "0" /\ i1 > i0 + 1) THEN Fail
      ELSE IF hasFrac /\ i2 = i1 + 1 THEN Fail
      ELSE IF CharAt(s, i2) \in {"e", "E"} THEN Fail
      ELSE Ok(ParseFloat(SubSeq(s, i, i2 - 1)), i2)

RECURSIVE ParseValue(_, _)
RECURSIVE ParseElements(_, _, _)
RECURSIVE ParseMembers(_, _, _)
ParseElements(s, i, acc) ==
  LET e == ParseValue(s, i)
      k == SkipWs(s, e.n)
  IN  IF ~e.ok THEN Fail
      ELSE IF CharAt(s, k) = "," THEN ParseElements(s, k + 1, Append(acc, e.v))
      ELSE IF CharAt(s, k) = "]" THEN Ok(PArr(Append(acc, e.v)), k + 1)
      ELSE Fail
ParseMembers(s, i, acc) ==
  LET key == ParseString(s, SkipWs(s, i))
      c == SkipWs(s, key.n)
      e == ParseValue(s, c + 1)
      k == SkipWs(s, e.n)
  IN  IF ~key.ok \/ CharAt(s, c) # ":" THEN Fail
      ELSE IF ~e.ok THEN Fail
      ELSE IF CharAt(s, k) = ","
        THEN ParseMembers(s, k + 1, (key.v.s :> e.v) @@ acc)
      ELSE IF CharAt(s, k) = "}"
        THEN Ok(PObj((key.v.s :> e.v) @@ acc), k + 1)
      ELSE Fail
ParseValue(s, i) ==
  LET j == SkipWs(s, i)
      c == CharAt(s, j)
  IN  CASE StartsWith(s, j, "null") -> Ok(Null, j + 4)
        [] StartsWith(s, j, "true") -> Ok(Bool(TRUE), j + 4)
        [] StartsWith(s, j, "false") -> Ok(Bool(FALSE), j + 5)
        [] c = "\"" -> ParseString(s, j)
        [] c = "-" \/ IsDigit(c) -> ParseNumber(s, j)
        [] c = "[" ->
             IF CharAt(s, SkipWs(s, j + 1)) = "]"
               THEN Ok(PArr(<< >>), SkipWs(s, j + 1) + 1)
               ELSE ParseElements(s, j + 1, << >>)
        [] c = "{" ->
             IF CharAt(s, SkipWs(s, j + 1)) = "}"
               THEN Ok(PObj(EmptyObj), SkipWs(s, j + 1) + 1)
               ELSE ParseMembers(s, j + 1, EmptyObj)
        [] OTHER -> Fail

\* JSON.parse(text)
JsonParse(h, text) ==
  LET r == ParseValue(text, 1) IN
  IF r.ok /\ SkipWs(text, r.n) = Len(text) + 1
    THEN LET st == Store(h, r.v) IN Return(st.h, st.r)
    ELSE Throw(h, "Unexpected token in JSON")

(***************************************************************************)
(* services/parser.js: classification and normalization.                   *)
(***************************************************************************)
Categories == <<"invoices", "expenses", "payments", "balances">>

TypeErrorMsg == "TypeError"

\* the heuristic with the payment names looked at before the invoice names
FieldNameType_PaymentFirst(keys) ==
  IF \E k \in keys : Includes(k, "payment") \/ Includes(k, "transaction")
    THEN "payments"
  ELSE IF \E k \in keys : Includes(k, "invoice") \/ Includes(k, "bill") \/ Includes(k, "revenue")
    THEN "invoices"
  ELSE IF \E k \in keys : Includes(k, "balance") \/ Includes(k, "account")
    THEN "balances"
  ELSE "expenses"

\* the heuristic with another default category
FieldNameType_DefaultBalance(keys) ==
  IF \E k \in keys : Includes(k, "invoice") \/ Includes(k, "bill") \/ Includes(k, "revenue")
    THEN "invoices"
  ELSE IF \E k \in keys : Includes(k, "payment") \/ Includes(k, "transaction")
    THEN "payments"
  ELSE "balances"

\* the field-name heuristic of detectRecordType
FieldNameType(keys) ==
  IF \E k \in keys : Includes(k, "invoice") \/ Includes(k, "bill") \/ Includes(k, "revenue")
    THEN "invoices"
  ELSE IF \E k \in keys : Includes(k, "payment") \/ Includes(k, "transaction")
    THEN "payments"
  ELSE IF \E k \in keys : Includes(k, "balance") \/ Includes(k, "account")
    THEN "balances"
  ELSE "expenses"

\* the category an explicit tag names, "" when it names none
TagType(type) ==
  IF type = "invoice" \/ type = "bill" THEN "invoices"
  ELSE IF type = "payment" \/ type = "transaction" THEN "payments"
  ELSE IF type = "expense" THEN "expenses"
  ELSE IF type = "balance" THEN "balances"
  ELSE ""

\* the classifier with the field names consulted before the explicit tag
detectRecordType_NamesFirst(h, record) ==
  IF IsNullish(record) THEN Throw(h, TypeErrorMsg)
  ELSE
    LET tv == GetProp(h, record, "type")
        keys == {ToLowerCase(k) : k \in ObjectKeys(h, record)}
    IN  IF FieldNameType(keys) # "expenses" \/ ~Truthy(tv)
          THEN Return(h, Str(FieldNameType(keys)))
        ELSE IF tv.t # "string" THEN Throw(h, TypeErrorMsg)
        ELSE IF TagType(ToLowerCase(tv.s)) # ""
          THEN Return(h, Str(TagType(ToLowerCase(tv.s))))
        ELSE Return(h, Str(FieldNameType(keys)))

detectRecordType(h, record) ==
  IF IsNullish(record) THEN Throw(h, TypeErrorMsg)
  ELSE
    LET tv == GetProp(h, record, "type")
        keys == {ToLowerCase(k) : k \in ObjectKeys(h, record)}
    IN  IF ~Truthy(tv) THEN Return(h, Str(FieldNameType(keys)))
        ELSE IF tv.t # "string" THEN Throw(h, TypeErrorMsg)
        ELSE IF TagType(ToLowerCase(tv.s)) # ""
          THEN Return(h, Str(TagType(ToLowerCase(tv.s))))
        ELSE Return(h, Str(FieldNameType(keys)))

\* array.push(v) on the array at reference r
Push(h, r, v) == [h EXCEPT ![r.addr] = ArrCell(Append(@.a, v))]

\* the forEach loop of categorizeFlatData from element i on
RECURSIVE CategorizeFrom(_, _, _, _)
CategorizeFrom(h, categorized, flat, i) ==
  IF i > Len(flat) THEN Return(h, categorized)
  ELSE
    LET record == flat[i]
        type == detectRecordType(h, record)
        bucket == IF type.thrown THEN Undef ELSE GetProp(h, categorized, type.v.s)
    IN  IF type.thrown THEN Throw(h, type.msg)
        ELSE IF Truthy(bucket)
          THEN CategorizeFrom(Push(h, bucket, record), categorized, flat, i + 1)
        ELSE CategorizeFrom(Push(h, GetProp(h, categorized, "expenses"), record),
                            categorized, flat, i + 1)

categorizeFlatData(h, flatData) ==
  LET a1 == Alloc(h, ArrCell(<< >>))
      a2 == Alloc(a1.h, ArrCell(<< >>))
      a3 == Alloc(a2.h, ArrCell(<< >>))
      a4 == Alloc(a3.h, ArrCell(<< >>))
      c == Alloc(a4.h, ObjCell([invoices |-> a1.r, expenses |-> a2.r,
                                payments |-> a3.r, balances |-> a4.r]))
  IN  CategorizeFrom(c.h, c.r, h[flatData.addr].a, 1)

\* a + b for operands that are numbers, undefined or NaN
JsAdd(a, b) ==
  IF a.t = "number" /\ b.t = "number" /\ a.e = 0 /\ b.e = 0
    THEN Num(a.m + b.m) ELSE NaN

\* x || y
OrElse(x, y) == IF Truthy(x) THEN x ELSE y

getTotalRecordCount(h, data) ==
  JsAdd(JsAdd(JsAdd(OrElse(OptLength(h, GetProp(h, data, "invoices")), Num(0)),
                    OrElse(OptLength(h, GetProp(h, data, "expenses")), Num(0))),
              OrElse(OptLength(h, GetProp(h, data, "payments")), Num(0))),
        OrElse(OptLength(h, GetProp(h, data, "balances")), Num(0)))

\* new Date().toISOString()
Timestamp == Str("2024-01-01T00:00:00.000Z")

\* (data.<category> || []).filter(Boolean): a copy without the falsy elements
CategoryOrEmpty_DropFalsy(h, data, category) ==
  LET v == GetProp(h, data, category) IN
  IF IsArray(h, v) THEN Alloc(h, ArrCell(SelectSeq(h[v.addr].a, Truthy)))
  ELSE IF Truthy(v) THEN [h |-> h, r |-> v] ELSE Alloc(h, ArrCell(<< >>))

\* data.<category> || []
CategoryOrEmpty(h, data, category) ==
  LET v == GetProp(h, data, category) IN
  IF Truthy(v) THEN [h |-> h, r |-> v] ELSE Alloc(h, ArrCell(<< >>))

\* the body of the try block of normalizeFinancialData
NormalizeBody(h, input) ==
  LET parsed == IF input.t = "string" THEN JsonParse(h, input.s) ELSE Return(h, input)
      cat == IF parsed.thrown THEN parsed
             ELSE IF IsArray(parsed.h, parsed.v)
               THEN categorizeFlatData(parsed.h, parsed.v)
             ELSE parsed
  IN  IF parsed.thrown THEN Throw(h, "Invalid JSON format")
      ELSE IF cat.thrown THEN cat
      ELSE IF IsNullish(cat.v) THEN Throw(cat.h, TypeErrorMsg)
      ELSE
        LET data == cat.v
            i == CategoryOrEmpty(cat.h, data, "invoices")
            e == CategoryOrEmpty(i.h, data, "expenses")
            p == CategoryOrEmpty(e.h, data, "payments")
            b == CategoryOrEmpty(p.h, data, "balances")
            m == Alloc(b.h, ObjCell(
                   [source |-> OrElse(GetProp(b.h, data, "source"), Str("manual_input")),
                    timestamp |-> Timestamp,
                    recordCount |-> getTotalRecordCount(b.h, data)]))
            n == Alloc(m.h, ObjCell([invoices |-> i.r, expenses |-> e.r,
                                     payments |-> p.r, balances |-> b.r,
                                     metadata |-> m.r]))
        IN  Return(n.h, n.r)

normalizeFinancialData(h, input) ==
  LET r == NormalizeBody(h, input) IN
  IF r.thrown THEN Throw(r.h, "Data normalization failed: " \o r.msg) ELSE r

(***************************************************************************)
(* services/parser.js: cleaning.                                           *)
(***************************************************************************)
\* Object.entries(v), as a mapping from the own property names to the values
ObjectEntries(h, v) ==
  CASE v.t = "ref" ->
         LET cell == h[v.addr] IN
         IF cell.t = "array"
           THEN [k \in IndexKeys(Len(cell.a)) |-> cell.a[DigitVal(k) + 1]]
           ELSE cell.o
    [] v.t = "string" -> [k \in IndexKeys(Len(v.s)) |-> Str(CharAt(v.s, DigitVal(k) + 1))]
    [] OTHER -> EmptyObj

\* r[k] = v on the object at reference r
SetProp(h, r, k, v) ==
  [h EXCEPT ![r.addr] = ObjCell((k :> v) @@ @.o)]

\* the callback with the numeric test applied to the value before trimming
CleanEntry_TestUntrimmed(h, cleaned, key, value) ==
  IF IsNullish(value) THEN h
  ELSE
    LET trimmed == IF TypeOf(value) = "string" THEN Str(Trim(value.s)) ELSE value
    IN  IF TypeOf(value) = "string" /\ trimmed.s = "" THEN h
        ELSE IF TypeOf(value) = "string" /\ NumericTest(value.s)
          THEN SetProp(h, cleaned, key, ParseFloat(trimmed.s))
        ELSE SetProp(h, cleaned, key, trimmed)

\* the callback skipping only undefined (value === undefined)
CleanEntry_KeepNull(h, cleaned, key, value) ==
  IF value.t = "undefined" THEN h
  ELSE
    LET trimmed == IF TypeOf(value) = "string" THEN Str(Trim(value.s)) ELSE value
    IN  IF TypeOf(value) = "string" /\ trimmed.s = "" THEN h
        ELSE IF TypeOf(trimmed) = "string" /\ NumericTest(trimmed.s)
          THEN SetProp(h, cleaned, key, ParseFloat(trimmed.s))
        ELSE SetProp(h, cleaned, key, trimmed)

\* the callback of cleanRecord's forEach: what one entry leaves in `cleaned`
CleanEntry(h, cleaned, key, value) ==
  IF IsNullish(value) THEN h
  ELSE
    LET trimmed == IF TypeOf(value) = "string" THEN Str(Trim(value.s)) ELSE value
    IN  IF TypeOf(value) = "string" /\ trimmed.s = "" THEN h
        ELSE IF TypeOf(trimmed) = "string" /\ NumericTest(trimmed.s)
          THEN SetProp(h, cleaned, key, ParseFloat(trimmed.s))
        ELSE SetProp(h, cleaned, key, trimmed)

\* the forEach loop of cleanRecord over the entries not yet visited
RECURSIVE CleanEntries(_, _, _, _)
CleanEntries(h, cleaned, entries, visited) ==
  IF visited = DOMAIN entries THEN h
  ELSE LET key == CHOOSE k \in DOMAIN entries \ visited : TRUE IN
       CleanEntries(CleanEntry(h, cleaned, key, entries[key]),
                    cleaned, entries, visited \cup {key})

cleanRecord(h, record) ==
  LET cleaned == Alloc(h, ObjCell(EmptyObj)) IN
  Return(CleanEntries(cleaned.h, cleaned.r, ObjectEntries(h, record), {}), cleaned.r)

\* records.filter(record => record && typeof record === 'object')
RECURSIVE FilterRecords(_)
FilterRecords(a) ==
  IF a = << >> THEN << >>
  ELSE IF Truthy(Head(a)) /\ TypeOf(Head(a)) = "object"
    THEN <<Head(a)>> \o FilterRecords(Tail(a))
  ELSE FilterRecords(Tail(a))

\* records.map(record => cleanRecord(record)) from element i on
RECURSIVE MapCleanRecord(_, _, _, _)
MapCleanRecord(h, a, i, acc) ==
  IF i > Len(a) THEN Alloc(h, ArrCell(acc))
  ELSE LET c == cleanRecord(h, a[i]) IN MapCleanRecord(c.h, a, i + 1, Append(acc, c.v))

\* the forEach loop of cleanFinancialData from category i on
RECURSIVE CleanCategories(_, _, _)
CleanCategories(h, cleaned, i) ==
  IF i > Len(Categories) THEN Return(h, cleaned)
  ELSE
    LET category == Categories[i]
        v == GetProp(h, cleaned, category)
    IN  IF ~Truthy(v) THEN CleanCategories(h, cleaned, i + 1)
        ELSE IF ~IsArray(h, v) THEN Throw(h, TypeErrorMsg)
        ELSE
          LET filtered == Alloc(h, ArrCell(FilterRecords(h[v.addr].a)))
              mapped == MapCleanRecord(filtered.h, filtered.h[filtered.r.addr].a, 1, << >>)
          IN  CleanCategories(SetProp(mapped.h, cleaned, category, mapped.r),
                              cleaned, i + 1)

\* cleaning without the copy: const cleaned = data
cleanFinancialData_InPlace(h, data) ==
  CleanCategories(h, data, 1)

cleanFinancialData(h, data) ==
  LET cleaned == Alloc(h, ObjCell(ObjectEntries(h, data))) IN
  CleanCategories(cleaned.h, cleaned.r, 1)

(***************************************************************************)
(* Inputs.                                                                 *)
(***************************************************************************)
SubsetsUpTo(S, n) == {T \in SUBSET S : Cardinality(T) <= n}
SeqsUpTo(S, n) == UNION {[1..k -> S] : k \in 0..n}

\* values of the `type` field of the records that are classified
TypeVals ==
  {Null, Str(""), Str("invoice"), Str("Bill"), Str("payment"), Str("PAYMENT"),
   Str("Transaction"), Str("Expense"), Str("balance"), Str("credit"),
   Str("invoices"), Num(7), Num(0), Bool(TRUE)}

\* names of the other fields of the records that are classified
FieldNames ==
  {"invoice_number", "BillTo", "Revenue", "payment_ref", "TransactionId",
   "Balance", "account_name", "foo", "amount"}

TypeFields == {EmptyObj} \cup {[type |-> v] : v \in TypeVals}

ClassifyRecords ==
  {PObj(tf @@ [k \in K |-> Num(1)]) :
     tf \in TypeFields, K \in SubsetsUpTo(FieldNames, MaxKeys)}

\* field values of the records that are cleaned
ScalarVals ==
  {Null, Undef, Num(0), Dec(15, 1),
   Str(""), Str("   "), Str(" 12 "), Str("123.45"), Str("abc123"), Str("12."),
   Str(".5"), Str("1e5"), Str("1,000"), Str("-7"), Str(" paid\t"), Str("-0.50")}

CleanKeys == {"amount", "note", "date"}

CleanRecords ==
  {PObj(f) : f \in UNION {[K -> ScalarVals] : K \in SubsetsUpTo(CleanKeys, MaxFields)}}

DirtyRecord == PObj([amount |-> Str(" 10 "), note |-> Null, memo |-> Str("  ")])
PaymentRecord == PObj([type |-> Str("payment"), invoice_number |-> Str("x")])
PlainRecord == PObj([foo |-> Num(1), bar |-> Num(2)])
NumericTypeRecord == PObj([type |-> Num(7), amount |-> Num(1)])
InvoiceRecord == PObj([type |-> Str("invoice"), amount |-> Num(500), date |-> Str("2024-02-01")])
VendorRecord == PObj([vendor |-> Str("Acme"), amount |-> Num(50), date |-> Str("2024-02-02")])

\* elements of a flat input
FlatElems ==
  {DirtyRecord, PaymentRecord, PlainRecord, NumericTypeRecord, InvoiceRecord, VendorRecord}

FlatInputs == {PArr(a) : a \in SeqsUpTo(FlatElems, MaxRecords)}

\* elements of the category sequences of a categorized input
CategoryElems == {DirtyRecord, PaymentRecord, Null}

\* values of a category key that are not sequences
OddVals == {Str("ab"), PObj([a |-> Num(1)]), Num(5)}

RECURSIVE SelectCategory(_, _)
SelectCategory(placed, c) ==
  IF placed = << >> THEN << >>
  ELSE IF Head(placed).c = c THEN <<Head(placed).e>> \o SelectCategory(Tail(placed), c)
  ELSE SelectCategory(Tail(placed), c)

CategoryNames == {Categories[i] : i \in 1..Len(Categories)}

\* the categorized input that holds the placed elements; with `full` it also
\* has the keys of the empty categories and a source; odd replaces one key
DataOf(placed, full, odd) ==
  LET used == {c \in CategoryNames : full \/ \E i \in 1..Len(placed) : placed[i].c = c}
      seqs == [c \in used |-> PArr(SelectCategory(placed, c))]
      src == IF full THEN [source |-> Str("erp")] ELSE EmptyObj
  IN  PObj(odd @@ seqs @@ src)

DataInputs ==
  {DataOf(placed, full, odd) :
     placed \in SeqsUpTo([e : CategoryElems, c : CategoryNames], MaxRecords),
     full \in BOOLEAN,
     odd \in {EmptyObj}}
  \cup
  {DataOf(placed, FALSE, (c :> v)) :
     placed \in SeqsUpTo([e : CategoryElems, c : CategoryNames], 1),
     c \in CategoryNames, v \in OddVals}

JsonTexts ==
  {"[{\"type\":\"invoice\",\"amount\":500},{\"vendor\":\"Acme\",\"note\":null}]",
   "{\"invoices\":[{\"amount\":\" 12 \"}],\"expenses\":[]}",
   "{\"invoices\":{\"a\":1}}",
   " { \"payments\" : \"ab\" , \"source\" : \"bank\" } ",
   "[]", "{}", "42", "null", "true", "\"abc\"",
   "{bad", "", "[1,]", "{\"invoices\":[}"}

Primitives == {Null, Undef, Num(42), Bool(TRUE)}

\* the shape of sampleData of tests/analysis.test.js: the source is a key of
\* the input's metadata
SampleMetadata == PObj([currency |-> Str("USD"), period |-> Str("monthly"),
                        source |-> Str("test_data")])
SampleData ==
  PObj([invoices |-> PArr(<<PObj([id |-> Str("inv_001"), amount |-> Num(5000),
                                  date |-> Str("2024-01-15")])>>),
        expenses |-> PArr(<<PObj([id |-> Str("exp_001"), amount |-> Num(1200),
                                  date |-> Str("2024-01-10")])>>),
        revenues |-> PArr(<< >>), payments |-> PArr(<< >>),
        balances |-> PArr(<< >>), metadata |-> SampleMetadata])

MetadataInputs ==
  {SampleData,
   PObj([invoices |-> PArr(<< >>), metadata |-> SampleMetadata]),
   PObj([source |-> Str("erp"), metadata |-> SampleMetadata]),
   PObj([source |-> Str(""), expenses |-> PArr(<< >>)])}

NormalizeInputs ==
  DataInputs \cup FlatInputs \cup {Str(t) : t \in JsonTexts} \cup Primitives
    \cup MetadataInputs

(***************************************************************************)
(* utils/validation.js: the schema of financial data.                      *)
(***************************************************************************)
Property(k, s) == [k |-> k, s |-> s]
StringSchema == [type |-> <<"string">>]
NumberSchema == [type |-> <<"number">>]
IdSchema == [type |-> <<"string", "number">>]
\* the amount of an invoice or expense without its lower limit
AmountSchema_NoMinimum == [type |-> <<"number">>]
\* amount: { type: 'number', minimum: 0 }
AmountSchema == [type |-> <<"number">>, minimum |-> 0]
\* the date of a record held to the format of a timestamp
DateSchema_DateTime == [type |-> <<"string">>, format |-> "date-time"]
DateSchema == [type |-> <<"string">>, format |-> "date"]

InvoiceSchema ==
  [type |-> <<"object">>,
   properties |-> <<Property("id", IdSchema),
                    Property("amount", AmountSchema),
                    Property("date", DateSchema),
                    Property("description", StringSchema),
                    Property("customer", StringSchema),
                    Property("status", [type |-> <<"string">>,
                       enum |-> <<"pending", "paid", "overdue", "cancelled">>])>>,
   required |-> <<"amount", "date">>]

ExpenseSchema ==
  [type |-> <<"object">>,
   properties |-> <<Property("id", IdSchema),
                    Property("amount", AmountSchema),
                    Property("date", DateSchema),
                    Property("description", StringSchema),
                    Property("category", StringSchema),
                    Property("vendor", StringSchema)>>,
   required |-> <<"amount", "date">>]

\* the payment schema accepting any string as `type`
PaymentSchema_AnyType ==
  [type |-> <<"object">>,
   properties |-> <<Property("id", IdSchema),
                    Property("amount", NumberSchema),
                    Property("date", DateSchema),
                    Property("description", StringSchema),
                    Property("type", StringSchema),
                    Property("method", StringSchema)>>,
   required |-> <<"amount", "date", "type">>]

PaymentSchema ==
  [type |-> <<"object">>,
   properties |-> <<Property("id", IdSchema),
                    Property("amount", NumberSchema),
                    Property("date", DateSchema),
                    Property("description", StringSchema),
                    Property("type", [type |-> <<"string">>,
                       enum |-> <<"inbound", "outbound">>]),
                    Property("method", StringSchema)>>,
   required |-> <<"amount", "date", "type">>]

BalanceSchema ==
  [type |-> <<"object">>,
   properties |-> <<Property("account", StringSchema),
                    Property("balance", NumberSchema),
                    Property("date", DateSchema),
                    Property("currency", StringSchema)>>,
   required |-> <<"account", "balance", "date">>]

MetadataSchema ==
  [type |-> <<"object">>,
   properties |-> <<Property("source", StringSchema),
                    Property("timestamp", [type |-> <<"string">>, format |-> "date-time"]),
                    Property("recordCount", [type |-> <<"number">>, minimum |-> 0])>>]

ArrayOf(items) == [type |-> <<"array">>, items |-> items]

financialDataSchema ==
  [type |-> <<"object">>,
   properties |-> <<Property("invoices", ArrayOf(InvoiceSchema)),
                    Property("expenses", ArrayOf(ExpenseSchema)),
                    Property("payments", ArrayOf(PaymentSchema)),
                    Property("balances", ArrayOf(BalanceSchema)),
                    Property("metadata", MetadataSchema)>>,
   required |-> <<"invoices", "expenses">>,
   additionalProperties |-> TRUE]

(***************************************************************************)
(* The formats of ajv-formats that the schema names.                       *)
(***************************************************************************)
\* the number written by the digits of s
RECURSIVE DigitsNat(_)
DigitsNat(s) ==
  IF s = "" THEN 0
  ELSE 10 * DigitsNat(SubSeq(s, 1, Len(s) - 1)) + DigitVal(CharAt(s, Len(s)))

DigitsAt(s, from, to) == \A i \in from..to : IsDigit(CharAt(s, i))

IsLeapYear(year) == year % 4 = 0 /\ (year % 100 # 0 \/ year % 400 = 0)
DAYS == <<31, 28, 31, 30, 31, 30, 31, 31, 30, 31, 30, 31>>

\* format "date": /^\d\d\d\d-\d\d-\d\d$/ that names a day of the calendar
FormatDate(s) ==
  /\ Len(s) = 10
  /\ DigitsAt(s, 1, 4) /\ CharAt(s, 5) = "-"
  /\ DigitsAt(s, 6, 7) /\ CharAt(s, 8) = "-"
  /\ DigitsAt(s, 9, 10)
  /\ LET year == DigitsNat(SubSeq(s, 1, 4))
         month == DigitsNat(SubSeq(s, 6, 7))
         day == DigitsNat(SubSeq(s, 9, 10))
     IN  /\ month >= 1 /\ month <= 12
         /\ day >= 1
         /\ day <= (IF month = 2 /\ IsLeapYear(year) THEN 29 ELSE DAYS[month])

\* the time zone of a time: z, or a sign, two digits and optionally
\* (with or without a colon) two more
TimeZone(z) ==
  \/ z \in {"z", "Z"}
  \/ /\ CharAt(z, 1) \in {"+", "-"}
     /\ DigitsAt(z, 2, 3)
     /\ \/ Len(z) = 3
        \/ Len(z) = 5 /\ DigitsAt(z, 4, 5)
        \/ Len(z) = 6 /\ CharAt(z, 4) = ":" /\ DigitsAt(z, 5, 6)

\* format "time" with a mandatory time zone: hh:mm:ss, optional fraction, zone
FormatTime(s) ==
  /\ Len(s) >= 9
  /\ DigitsAt(s, 1, 2) /\ CharAt(s, 3) = ":"
  /\ DigitsAt(s, 4, 5) /\ CharAt(s, 6) = ":"
  /\ DigitsAt(s, 7, 8)
  /\ LET hour == DigitsNat(SubSeq(s, 1, 2))
         minute == DigitsNat(SubSeq(s, 4, 5))
         second == DigitsNat(SubSeq(s, 7, 8))
         frac == IF CharAt(s, 9) = "." THEN SkipDigits(s, 10) ELSE 9
     IN  /\ (CharAt(s, 9) = "." => frac > 10)
         /\ TimeZone(SubSeq(s, frac, Len(s)))
         /\ \/ hour <= 23 /\ minute <= 59 /\ second <= 59
            \/ hour = 23 /\ minute = 59 /\ second = 60

\* format "date-time": a date and a time around one separator (t or a space)
Separators(s) == {i \in 1..Len(s) : CharAt(s, i) \in {"t", "T", " "} \/ IsWhiteSpace(CharAt(s, i))}
FormatDateTime(s) ==
  /\ Cardinality(Separators(s)) = 1
  /\ LET i == CHOOSE j \in Separators(s) : TRUE
     IN  FormatDate(SubSeq(s, 1, i - 1)) /\ FormatTime(SubSeq(s, i + 1, Len(s)))

MatchesFormat(format, s) ==
  CASE format = "date" -> FormatDate(s)
    [] format = "date-time" -> FormatDateTime(s)

(***************************************************************************)
(* ajv.compile(financialDataSchema) with { allErrors: true }: the errors   *)
(* of a value against a schema, in the order the validator reports them.   *)
(***************************************************************************)
Has(schema, keyword) == keyword \in DOMAIN schema

\* the JSON data type of a value
JsonType(h, v) ==
  CASE v.t = "ref" -> h[v.addr].t
    [] v.t = "nan" -> "not finite"
    [] OTHER -> v.t

RECURSIVE NatToString(_)
NatToString(n) ==
  IF n < 10 THEN Digit[n + 1] ELSE NatToString(n \div 10) \o Digit[(n % 10) + 1]

RECURSIVE Join(_)
Join(names) ==
  IF Len(names) = 1 THEN names[1] ELSE names[1] \o "," \o Join(Tail(names))

StrArr(names) == PArr([i \in 1..Len(names) |-> Str(names[i])])

\* an error object; without the option `verbose` it has no `data`
AjvError(instancePath, schemaPath, keyword, params, message) ==
  [instancePath |-> instancePath, schemaPath |-> schemaPath, keyword |-> keyword,
   params |-> params, message |-> message]

TypeError(schema, ip, sp) ==
  <<AjvError(ip, sp \o "/type", "type",
             PObj([type |-> IF Len(schema.type) = 1 THEN Str(schema.type[1])
                            ELSE StrArr(schema.type)]),
             "must be " \o Join(schema.type))>>

\* the keywords of the schema that apply to one data type only
HasRulesForType(schema, type) ==
  CASE type = "number" -> Has(schema, "minimum")
    [] type = "string" -> Has(schema, "format")
    [] type = "array" -> Has(schema, "items")
    [] type = "object" -> Has(schema, "required") \/ Has(schema, "properties")
                            \/ Has(schema, "additionalProperties")
    [] OTHER -> FALSE

\* the keywords of one data type run on data of that type; other data gets
\* the type error here when the type is the schema's only one
TypedGroup(schema, type, jt, ip, sp, errors) ==
  IF ~HasRulesForType(schema, type) THEN << >>
  ELSE IF jt = type THEN errors
  ELSE IF schema.type = <<type>> THEN TypeError(schema, ip, sp)
  ELSE << >>

EnumErrors(schema, v, ip, sp) ==
  IF Has(schema, "enum")
       /\ ~(v.t = "string" /\ \E i \in 1..Len(schema.enum) : schema.enum[i] = v.s)
    THEN <<AjvError(ip, sp \o "/enum", "enum",
                    PObj([allowedValues |-> StrArr(schema.enum)]),
                    "must be equal to one of the allowed values")>>
    ELSE << >>

MinimumErrors(schema, v, ip, sp) ==
  IF Has(schema, "minimum") /\ v.m < schema.minimum * Pow10(v.e)
    THEN <<AjvError(ip, sp \o "/minimum", "minimum",
                    PObj([comparison |-> Str(">="), limit |-> Num(schema.minimum)]),
                    "must be >= " \o NatToString(schema.minimum))>>
    ELSE << >>

FormatErrors(schema, v, ip, sp) ==
  IF Has(schema, "format") /\ ~MatchesFormat(schema.format, v.s)
    THEN <<AjvError(ip, sp \o "/format", "format",
                    PObj([format |-> Str(schema.format)]),
                    "must match format \"" \o schema.format \o "\"")>>
    ELSE << >>

RECURSIVE RequiredErrors(_, _, _, _, _)
RequiredErrors(h, required, v, ip, sp) ==
  IF required = << >> THEN << >>
  ELSE (IF GetProp(h, v, Head(required)) = Undef
          THEN <<AjvError(ip, sp \o "/required", "required",
                          PObj([missingProperty |-> Str(Head(required))]),
                          "must have required property '" \o Head(required) \o "'")>>
          ELSE << >>)
       \o RequiredErrors(h, Tail(required), v, ip, sp)

RECURSIVE ValidateSchema(_, _, _, _, _)
RECURSIVE PropertiesErrors(_, _, _, _, _)
RECURSIVE ItemsErrors(_, _, _, _, _, _)

\* properties: each listed property that the object has, against its schema
PropertiesErrors(h, properties, v, ip, sp) ==
  IF properties = << >> THEN << >>
  ELSE LET p == Head(properties) IN
       (IF GetProp(h, v, p.k) = Undef THEN << >>
        ELSE ValidateSchema(h, p.s, GetProp(h, v, p.k),
                            ip \o "/" \o p.k, sp \o "/properties/" \o p.k))
       \o PropertiesErrors(h, Tail(properties), v, ip, sp)

\* items: every element from index i (counted from 0) on, against the schema
ItemsErrors(h, items, v, i, ip, sp) ==
  IF i >= Len(h[v.addr].a) THEN << >>
  ELSE ValidateSchema(h, items, h[v.addr].a[i + 1],
                      ip \o "/" \o NatToString(i), sp \o "/items")
       \o ItemsErrors(h, items, v, i + 1, ip, sp)

ObjectErrors(h, schema, v, ip, sp) ==
  (IF Has(schema, "required") THEN RequiredErrors(h, schema.required, v, ip, sp)
   ELSE << >>)
  \o (IF Has(schema, "properties")
        THEN PropertiesErrors(h, schema.properties, v, ip, sp) ELSE << >>)

ValidateSchema(h, schema, v, ip, sp) ==
  LET jt == JsonType(h, v)
      deferred == Len(schema.type) = 1 /\ HasRulesForType(schema, schema.type[1])
  IN  (IF ~deferred /\ \A i \in 1..Len(schema.type) : schema.type[i] # jt
         THEN TypeError(schema, ip, sp) ELSE << >>)
      \o EnumErrors(schema, v, ip, sp)
      \o TypedGroup(schema, "number", jt, ip, sp, MinimumErrors(schema, v, ip, sp))
      \o TypedGroup(schema, "string", jt, ip, sp, FormatErrors(schema, v, ip, sp))
      \o TypedGroup(schema, "array", jt, ip, sp,
                    IF Has(schema, "items")
                      THEN ItemsErrors(h, schema.items, v, 0, ip, sp) ELSE << >>)
      \o TypedGroup(schema, "object", jt, ip, sp, ObjectErrors(h, schema, v, ip, sp))

\* the compiled validator: its verdict and its `errors`
validateFinancialData(h, data) ==
  LET errors == ValidateSchema(h, financialDataSchema, data, "", "#")
  IN  [valid |-> errors = << >>, errors |-> errors]

(***************************************************************************)
(* utils/validation.js: validateData and its helpers.                      *)
(***************************************************************************)
\* error.<k> of an error object of the validator
ErrorProp(error, k) ==
  IF k \in DOMAIN error
    THEN (IF k = "params" THEN error[k] ELSE Str(error[k]))
    ELSE Undef

formatValidationError(error) ==
  PObj([field |-> OrElse(ErrorProp(error, "instancePath"), ErrorProp(error, "schemaPath")),
        message |-> ErrorProp(error, "message"),
        value |-> ErrorProp(error, "data"),
        constraint |-> ErrorProp(error, "params")])

\* [...(v || [])] for the sequences of data that passed the schema
SpreadOrEmpty(h, v) == IF IsArray(h, v) THEN h[v.addr].a ELSE << >>

\* the number a is less than the integer n
LessThan(a, n) == a.t = "number" /\ a.m < n * Pow10(a.e)
GreaterThan(a, n) == a.t = "number" /\ a.m > n * Pow10(a.e)

\* the check with the limit itself counted as unusual (>= 1000000)
SuspiciousAmount_Inclusive(h, record) ==
  LET amount == GetProp(h, record, "amount") IN
  Truthy(amount) /\ (LessThan(amount, 0) \/ ~LessThan(amount, 1000000))

\* record.amount && (record.amount < 0 || record.amount > 1000000)
SuspiciousAmount(h, record) ==
  LET amount == GetProp(h, record, "amount") IN
  Truthy(amount) /\ (LessThan(amount, 0) \/ GreaterThan(amount, 1000000))

MissingDate(h, record) == ~Truthy(GetProp(h, record, "date"))

NoInvoices == "No invoice data provided - cash flow projections may be inaccurate"
NoExpenses == "No expense data provided - cost analysis will be limited"
MissingDates(n) ==
  NatToString(n) \o " records missing dates - timeline analysis may be affected"
UnusualAmounts(n) == NatToString(n) \o " records with unusual amounts detected"

\* the empty-category checks reading the other category's length
EmptyCategoryWarnings_Swapped(h, data) ==
  (IF OptLength(h, GetProp(h, data, "expenses")) = Num(0) THEN <<Str(NoInvoices)>> ELSE << >>)
  \o (IF OptLength(h, GetProp(h, data, "invoices")) = Num(0) THEN <<Str(NoExpenses)>> ELSE << >>)

EmptyCategoryWarnings(h, data) ==
  (IF OptLength(h, GetProp(h, data, "invoices")) = Num(0) THEN <<Str(NoInvoices)>> ELSE << >>)
  \o (IF OptLength(h, GetProp(h, data, "expenses")) = Num(0) THEN <<Str(NoExpenses)>> ELSE << >>)

checkDataQuality(h, data) ==
  LET allRecords == SpreadOrEmpty(h, GetProp(h, data, "invoices"))
                      \o SpreadOrEmpty(h, GetProp(h, data, "expenses"))
                      \o SpreadOrEmpty(h, GetProp(h, data, "payments"))
      WithoutDate(record) == MissingDate(h, record)
      Suspicious(record) == SuspiciousAmount(h, record)
      recordsWithoutDates == SelectSeq(allRecords, WithoutDate)
      suspiciousAmounts == SelectSeq(allRecords, Suspicious)
  IN  EmptyCategoryWarnings(h, data)
      \o (IF Len(recordsWithoutDates) > 0
            THEN <<Str(MissingDates(Len(recordsWithoutDates)))>> ELSE << >>)
      \o (IF Len(suspiciousAmounts) > 0
            THEN <<Str(UnusualAmounts(Len(suspiciousAmounts)))>> ELSE << >>)

\* validateData with the quality checks run whatever the verdict is
validateData_AlwaysWarns(h, data) ==
  LET v == validateFinancialData(h, data)
      result == PObj([isValid |-> Bool(v.valid),
                      errors |-> PArr([i \in 1..Len(v.errors) |->
                                         formatValidationError(v.errors[i])]),
                      warnings |-> PArr(IF IsObject(h, data)
                                          THEN checkDataQuality(h, data) ELSE << >>)])
      s == Store(h, result)
  IN  Return(s.h, s.r)

validateData(h, data) ==
  LET v == validateFinancialData(h, data)
      result == PObj([isValid |-> Bool(v.valid),
                      errors |-> PArr(IF v.valid THEN << >>
                                      ELSE [i \in 1..Len(v.errors) |->
                                              formatValidationError(v.errors[i])]),
                      warnings |-> PArr(IF v.valid THEN checkDataQuality(h, data)
                                        ELSE << >>)])
      s == Store(h, result)
  IN  Return(s.h, s.r)

(***************************************************************************)
(* The data given to validateData.                                         *)
(***************************************************************************)
GoodDate == [date |-> Str("2024-01-01")]
Amount(a) == [amount |-> a]

\* invoices and expenses: amounts around the limits of the schema and of the
\* quality check, and records short of a required field or with a bad one
InvoiceRecords ==
  {PObj(Amount(a) @@ GoodDate) :
     a \in {Num(-5), Num(0), Num(50), Num(1000000), Num(1000001), Str("12")}}
  \cup {PObj(GoodDate), PObj(Amount(Num(50))),
        PObj(Amount(Num(50)) @@ [date |-> Str("2024-02-30")]),
        PObj(Amount(Num(50)) @@ GoodDate @@ [status |-> Num(7)])}

ExpenseRecords ==
  {PObj(Amount(a) @@ GoodDate) : a \in {Dec(-5, 1), Num(50), Dec(10000005, 1)}}
  \cup {PObj(GoodDate), PObj(Amount(Num(50)))}

PaymentRecords ==
  {PObj(Amount(a) @@ GoodDate @@ [type |-> Str("inbound")]) :
     a \in {Num(-5), Num(50), Num(1000001)}}
  \cup {PObj(Amount(Num(50)) @@ GoodDate),
        PObj(Amount(Num(50)) @@ GoodDate @@ [type |-> Str("refund")]),
        PObj(GoodDate @@ [type |-> Str("outbound")]),
        PObj(Amount(Num(-5)) @@ [type |-> Str("outbound")])}

GoodBalance == [account |-> Str("main"), balance |-> Num(-20), date |-> Str("2024-02-29")]
BalanceRecords ==
  {PObj(GoodBalance)}
  \cup {PObj([k \in DOMAIN GoodBalance \ {missing} |-> GoodBalance[k]]) :
          missing \in DOMAIN GoodBalance}

ValidatePlacements ==
  [e : InvoiceRecords, c : {"invoices"}] \cup [e : ExpenseRecords, c : {"expenses"}]
    \cup [e : PaymentRecords, c : {"payments"}] \cup [e : BalanceRecords, c : {"balances"}]

\* data with the two required categories, and the others when they are used
CategorizedData(placed) ==
  LET used == {"invoices", "expenses"} \cup {placed[i].c : i \in 1..Len(placed)}
  IN  PObj([c \in used |-> PArr(SelectCategory(placed, c))])

\* data that is not of the canonical shape, and data with metadata
ShapeInputs ==
  {Null, Num(42), PObj(EmptyObj),
   PObj([invoices |-> PArr(<<PObj(Amount(Num(2000000)))>>)]),
   PObj([invoices |-> Str("ab"), expenses |-> PArr(<<Null>>)]),
   PObj([invoices |-> PArr(<< >>), expenses |-> PArr(<< >>),
         metadata |-> PObj([source |-> Str("erp"), timestamp |-> Timestamp,
                            recordCount |-> Num(0)])]),
   PObj([invoices |-> PArr(<< >>), expenses |-> PArr(<< >>),
         metadata |-> PObj([timestamp |-> Str("2024-01-01"), recordCount |-> Num(-1)])]),
   SampleData}

ValidateInputs ==
  {CategorizedData(placed) : placed \in SeqsUpTo(ValidatePlacements, MaxRecords)}
    \cup ShapeInputs

NegativePayment == PObj(Amount(Num(-5)) @@ GoodDate @@ [type |-> Str("inbound")])
RefundPayment == PObj(Amount(Num(50)) @@ GoodDate @@ [type |-> Str("refund")])

(***************************************************************************)
(* services/parser.js: parseCSV, for text without quoted fields.           *)
(***************************************************************************)
\* the pieces of s between the occurrences of the character sep
RECURSIVE SplitFrom(_, _, _, _)
SplitFrom(s, sep, i, start) ==
  IF i > Len(s) THEN <<SubSeq(s, start, Len(s))>>
  ELSE IF CharAt(s, i) = sep
    THEN <<SubSeq(s, start, i - 1)>> \o SplitFrom(s, sep, i + 1, i + 1)
  ELSE SplitFrom(s, sep, i + 1, start)
Split(s, sep) == SplitFrom(s, sep, 1, 1)

NotEmpty(s) == s # ""

\* cast: true with cast_date: true, on a trimmed field: a decimal literal is
\* the number, text that Date.parse reads (here: an ISO date or date-time) is
\* a Date object, any other text stays
CastField(h, field) ==
  IF NumericTest(field) THEN [h |-> h, r |-> ParseFloat(field)]
  ELSE IF FormatDate(field) \/ FormatDateTime(field)
    THEN Alloc(h, ObjCell(EmptyObj))   \* a Date: an object without own keys
  ELSE [h |-> h, r |-> Str(field)]

\* the record of one line: the fields under the names of the header
RECURSIVE CsvFields(_, _, _, _)
CsvFields(h, columns, fields, acc) ==
  IF columns = << >> THEN Alloc(h, ObjCell(acc))
  ELSE LET c == CastField(h, Trim(Head(fields)))
       IN  CsvFields(c.h, Tail(columns), Tail(fields), (Head(columns) :> c.r) @@ acc)

RECURSIVE CsvRecords(_, _, _, _)
CsvRecords(h, columns, lines, acc) ==
  IF lines = << >> THEN LET a == Alloc(h, ArrCell(acc)) IN Return(a.h, a.r)
  ELSE LET fields == Split(Head(lines), ",") IN
       IF Len(fields) # Len(columns)
         THEN Throw(h, "Invalid CSV format: Invalid Record Length")
         ELSE LET r == CsvFields(h, columns, fields, EmptyObj)
              IN  CsvRecords(r.h, columns, Tail(lines), Append(acc, r.r))

parseCSV(h, csvData) ==
  IF csvData.t # "string" THEN Throw(h, "Invalid CSV format: Invalid argument")
  ELSE
    LET lines == SelectSeq(Split(csvData.s, "\n"), NotEmpty)
        header == Split(Head(lines), ",")
        columns == [i \in 1..Len(header) |-> Trim(header[i])]
    IN  IF lines = << >> THEN LET a == Alloc(h, ArrCell(<< >>)) IN Return(a.h, a.r)
        ELSE CsvRecords(h, columns, Tail(lines), << >>)

(***************************************************************************)
(* controllers/analysisController.js: the two request handlers, up to the  *)
(* call of the LLM client, and the answer after it settles.                *)
(***************************************************************************)
\* the state of a request: the structure and the validation result of the
\* handler, the arguments the LLM client was called with, and the response
Request(phase, parsedData, validation, llm, status, body) ==
  [phase |-> phase, parsedData |-> parsedData, validation |-> validation,
   llm |-> llm, status |-> status, body |-> body]
NoRequest == Request("none", Undef, Undef, << >>, 0, Undef)

\* res.status(status).json(body)
Respond(h, parsedData, validation, llm, status, body) ==
  LET b == Alloc(h, ObjCell(body))
  IN  [h |-> b.h, http |-> Request("responded", parsedData, validation, llm, status, b.r)]

\* the gate that also rejects data that has warnings
ValidateAndAnalyze_WarningsBlock(h, parsedData) ==
  LET validation == validateData(h, parsedData) IN
  IF ~Truthy(GetProp(validation.h, validation.v, "isValid"))
       \/ GetProp(validation.h, GetProp(validation.h, validation.v, "warnings"), "length") # Num(0)
    THEN Respond(validation.h, parsedData, validation.v, << >>, 400,
                 [error |-> Str("Data validation failed"),
                  details |-> GetProp(validation.h, validation.v, "errors")])
    ELSE [h |-> validation.h,
          http |-> Request("awaiting", parsedData, validation.v, <<parsedData>>, 0, Undef)]

\* validateData, the 400 for structural errors, and the call of the client
ValidateAndAnalyze(h, parsedData) ==
  LET validation == validateData(h, parsedData) IN
  IF ~Truthy(GetProp(validation.h, validation.v, "isValid"))
    THEN Respond(validation.h, parsedData, validation.v, << >>, 400,
                 [error |-> Str("Data validation failed"),
                  details |-> GetProp(validation.h, validation.v, "errors")])
    ELSE [h |-> validation.h,
          http |-> Request("awaiting", parsedData, validation.v, <<parsedData>>, 0, Undef)]

\* the handler without the check of validation.isValid
analyzeFinancialData_NoValidationGate(h, req) ==
  LET data == GetProp(h, GetProp(h, req, "body"), "data")
      given == GetProp(h, GetProp(h, req, "body"), "format")
      format == IF given = Undef THEN Str("json") ELSE given
      csv == parseCSV(h, data)
      parsed == IF format # Str("csv") THEN normalizeFinancialData(h, data)
                ELSE IF csv.thrown THEN csv
                ELSE normalizeFinancialData(csv.h, csv.v)
  IN  IF ~Truthy(data)
        THEN Respond(h, Undef, Undef, << >>, 400,
               [error |-> Str("Missing required field: data"),
                message |-> Str("Please provide financial data in the request body")])
      ELSE IF parsed.thrown
        THEN Respond(parsed.h, Undef, Undef, << >>, 400,
               [error |-> Str("Data parsing failed"), message |-> Str(parsed.msg)])
      ELSE LET validation == validateData(parsed.h, parsed.v)
           IN  [h |-> validation.h,
                http |-> Request("awaiting", parsed.v, validation.v, <<parsed.v>>, 0, Undef)]

analyzeFinancialData(h, req) ==
  LET data == GetProp(h, GetProp(h, req, "body"), "data")
      given == GetProp(h, GetProp(h, req, "body"), "format")
      format == IF given = Undef THEN Str("json") ELSE given
      csv == parseCSV(h, data)
      parsed == IF format # Str("csv") THEN normalizeFinancialData(h, data)
                ELSE IF csv.thrown THEN csv
                ELSE normalizeFinancialData(csv.h, csv.v)
  IN  IF ~Truthy(data)
        THEN Respond(h, Undef, Undef, << >>, 400,
               [error |-> Str("Missing required field: data"),
                message |-> Str("Please provide financial data in the request body")])
      ELSE IF parsed.thrown
        THEN Respond(parsed.h, Undef, Undef, << >>, 400,
               [error |-> Str("Data parsing failed"), message |-> Str(parsed.msg)])
      ELSE ValidateAndAnalyze(parsed.h, parsed.v)

EndsWith(s, suffix) ==
  Len(s) >= Len(suffix) /\ SubSeq(s, Len(s) - Len(suffix) + 1, Len(s)) = suffix

analyzeFile(h, req) ==
  LET file == GetProp(h, req, "file")
      fileContent == GetProp(h, file, "buffer")
      isCsv == \/ GetProp(h, file, "mimetype") = Str("text/csv")
               \/ EndsWith(GetProp(h, file, "originalname").s, ".csv")
      csv == parseCSV(h, fileContent)
      json == JsonParse(h, fileContent.s)
      parsed == IF isCsv
                  THEN (IF csv.thrown THEN csv ELSE normalizeFinancialData(csv.h, csv.v))
                ELSE IF json.thrown THEN json
                ELSE normalizeFinancialData(json.h, json.v)
  IN  IF ~Truthy(file)
        THEN Respond(h, Undef, Undef, << >>, 400,
               [error |-> Str("No file uploaded"),
                message |-> Str("Please upload a CSV or JSON file")])
      ELSE IF parsed.thrown
        THEN Respond(parsed.h, Undef, Undef, << >>, 400,
               [error |-> Str("File parsing failed"), message |-> Str(parsed.msg)])
      ELSE ValidateAndAnalyze(parsed.h, parsed.v)

(***************************************************************************)
(* The requests given to the handlers and the outcomes of the LLM client.  *)
(***************************************************************************)
EndToEndInput == PArr(<<InvoiceRecord, VendorRecord>>)
EndToEndText ==
  "[{\"type\":\"invoice\",\"amount\":500,\"date\":\"2024-02-01\"},{\"vendor\":\"Acme\",\"amount\":50,\"date\":\"2024-02-02\"}]"

\* records that their tag routes to payments
TaggedPayments ==
  {PObj([type |-> Str(t), amount |-> Num(50), date |-> Str("2024-02-03")]) :
     t \in {"payment", "PAYMENT", "Transaction", "transaction"}}
TaggedInputs ==
  {PArr(<<t>>) : t \in TaggedPayments}
    \cup {PArr(<<InvoiceRecord, t>>) : t \in TaggedPayments}
    \cup {PArr(<<t, NumericTypeRecord>>) : t \in TaggedPayments}

\* data that passes the schema with warnings, and data that does not pass
WarnedData ==
  {CategorizedData(<< >>),
   CategorizedData(<<[e |-> PObj(Amount(Num(1000001)) @@ GoodDate), c |-> "invoices"]>>),
   CategorizedData(<<[e |-> PObj(Amount(Num(50)) @@ GoodDate), c |-> "invoices"],
                     [e |-> NegativePayment, c |-> "payments"]>>),
   CategorizedData(<<[e |-> PObj(GoodDate), c |-> "invoices"]>>)}

RequestData ==
  FlatInputs \cup TaggedInputs \cup WarnedData
    \cup {SampleData, Null, Bool(FALSE), Num(0), Num(42), Str(""), Str("{bad"),
          Str(EndToEndText), Str("{\"invoices\":[],\"expenses\":[]}")}

CsvTexts ==
  {"type,amount,date\ninvoice,500,2024-02-01\n",
   "type, amount\npayment, 5\n\ntransaction,7",
   "vendor,amount\nAcme,50",
   "amount,date\n50",
   "amount,date\n",
   "{\"invoices\":[]}"}

Requests ==
  {PObj([body |-> PObj([data |-> d])]) : d \in RequestData}
    \cup {PObj([body |-> PObj([data |-> Str(t), format |-> Str("csv")])]) : t \in CsvTexts}
    \cup {PObj([body |-> PObj(EmptyObj)]),
          PObj([body |-> PObj([format |-> Str("csv")])]),
          PObj([body |-> PObj([data |-> EndToEndInput, format |-> Str("csv")])]),
          PObj([body |-> PObj([data |-> EndToEndInput, format |-> Str("json")])])}

File(content, mimetype, originalname) ==
  PObj([file |-> PObj([buffer |-> Str(content), mimetype |-> Str(mimetype),
                       originalname |-> Str(originalname)])])

FileRequests ==
  {PObj(EmptyObj)}
    \cup {File(t, "application/json", "data.json") :
            t \in {EndToEndText, "{\"invoices\":[],\"expenses\":[]}", "{bad", "42", "\"abc\"",
                   "[{\"type\":\"payment\",\"amount\":50,\"date\":\"2024-02-03\"}]",
                   "{\"invoices\":[{\"date\":\"2024-01-01\"}],\"expenses\":[]}"}}
    \cup {File(t, "text/csv", "upload") : t \in CsvTexts}
    \cup {File(t, "text/plain", "data.csv") : t \in CsvTexts}

\* what the LLM client does with a call: it resolves with the analysis, or
\* with its fallback object for a reply that is not JSON, or it rejects
LlmResolved(v) == [rejected |-> FALSE, v |-> v, msg |-> ""]
LlmRejected(msg) == [rejected |-> TRUE, v |-> Undef, msg |-> msg]
LlmOutcomes ==
  {LlmResolved(PObj([kpis |-> PObj([dso |-> Num(30)]), anomalies |-> PArr(<< >>)])),
   LlmResolved(PObj([error |-> Str("Analysis parsing failed"), rawResponse |-> Str("n/a")])),
   LlmRejected("Request timed out")}

(***************************************************************************)
(* services/researchService.js: searchPapers against the paper service.    *)
(***************************************************************************)
MaxAttempts == 3   \* requests of one searchPapers call

\* what axios.get settles with: a response with the papers, an error with
\* the response of the service (its status), or an error without response
Papers(list) == [kind |-> "ok", status |-> 200, data |-> list]
HttpError(status) == [kind |-> "error", status |-> status, data |-> << >>]
NetworkError == [kind |-> "network", status |-> 0, data |-> << >>]
ServiceAnswers ==
  {Papers(<< >>), Papers(<<"paper A", "paper B">>),
   HttpError(429), HttpError(500), HttpError(404), NetworkError}

\* the retry test taking every error that has a response
RateLimited_AnyResponse(err) == err.kind = "error"

\* err.response && err.response.status === 429
RateLimited(err) == err.kind = "error" /\ err.status = 429

\* the state of a searchPapers call: where it is, the requests it sent, the
\* answers it got, the 5 second waits it made, and what it returned or threw
Search(pc, sent, answers, waits, result) ==
  [pc |-> pc, sent |-> sent, answers |-> answers, waits |-> waits, result |-> result]
NoSearch == Search("none", << >>, << >>, 0, << >>)

\* the request of axios.get for the arguments of the call
PaperSearch(query, limit) ==
  [url |-> "/paper/search", query |-> query, limit |-> limit,
   fields |-> "title,abstract,url,authors"]

SearchQueries == [query : {"tax", "ifrs 16"}, limit : {Undef, Num(3)}]

(***************************************************************************)
(* The state: the heap, the last call (operation, argument, heap at the    *)
(* call) and its outcome, the request a handler is serving, and the        *)
(* searchPapers call in progress.                                          *)
(***************************************************************************)
VARIABLES heap, op, arg, pre, ret, http, search

vars == <<heap, op, arg, pre, ret, http, search>>

Init ==
  /\ heap = << >>
  /\ op = "init"
  /\ arg = Undef
  /\ pre = << >>
  /\ ret = [thrown |-> FALSE, v |-> Undef, msg |-> ""]
  /\ http = NoRequest
  /\ search = NoSearch

Outcome(r) == [thrown |-> r.thrown, v |-> r.v, msg |-> r.msg]

\* an idle caller builds the literal p and calls f on it
Call(name, f(_, _), p) ==
  LET s == Store(<< >>, p)
      r == f(s.h, s.r)
  IN  /\ op = "init"
      /\ op' = name
      /\ pre' = s.h
      /\ arg' = s.r
      /\ heap' = r.h
      /\ ret' = Outcome(r)
      /\ UNCHANGED <<http, search>>

Normalize ==
  \E p \in NormalizeInputs : Call("normalizeFinancialData", normalizeFinancialData, p)

Detect ==
  \E p \in ClassifyRecords : Call("detectRecordType", detectRecordType, p)

CleanRecord ==
  \E p \in CleanRecords : Call("cleanRecord", cleanRecord, p)

CleanData ==
  \E p \in DataInputs : Call("cleanFinancialData", cleanFinancialData, p)

Validate ==
  \E p \in ValidateInputs : Call("validateData", validateData, p)

\* the caller, which still holds the object it passed to
\* normalizeFinancialData, pushes a record onto one of its category arrays
PushToInput(c) ==
  LET s == Store(heap, PlainRecord) IN
  /\ op = "normalizeFinancialData"
  /\ ~ret.thrown
  /\ IsObject(pre, arg)
  /\ IsArray(heap, GetProp(heap, arg, c))
  /\ heap' = Push(s.h, GetProp(heap, arg, c), s.r)
  /\ op' = "inputMutated"
  /\ UNCHANGED <<arg, pre, ret, http, search>>

MutateInput == \E c \in CategoryNames : PushToInput(c)

\* a request handled up to its response or to the call of the LLM client
Handle(name, f(_, _), p) ==
  LET s == Store(<< >>, p)
      r == f(s.h, s.r)
  IN  /\ op = "init"
      /\ op' = name
      /\ pre' = s.h
      /\ arg' = s.r
      /\ heap' = r.h
      /\ http' = r.http
      /\ UNCHANGED <<ret, search>>

AnalyzeRequest ==
  \E p \in Requests : Handle("analyzeFinancialData", analyzeFinancialData, p)

AnalyzeFile ==
  \E p \in FileRequests : Handle("analyzeFile", analyzeFile, p)

\* the awaited call settles and the handler answers: 200 with the data and
\* the analysis, or 500 from the outer catch when the client rejected
Settle(outcome) ==
  LET a == Store(heap, outcome.v)
      failed == IF op = "analyzeFile" THEN "File analysis failed" ELSE "Analysis failed"
      named == IF op = "analyzeFile"
                 THEN [filename |-> GetProp(heap, GetProp(heap, arg, "file"), "originalname")]
                 ELSE EmptyObj
      r == IF outcome.rejected
             THEN Respond(heap, http.parsedData, http.validation, http.llm, 500,
                          [error |-> Str(failed), message |-> Str(outcome.msg)])
             ELSE Respond(a.h, http.parsedData, http.validation, http.llm, 200,
                          named @@ [success |-> Bool(TRUE), data |-> http.parsedData,
                                    analysis |-> a.r, timestamp |-> Timestamp])
  IN  /\ http.phase = "awaiting"
      /\ heap' = r.h
      /\ http' = r.http
      /\ ret' = [thrown |-> outcome.rejected,
                 v |-> IF outcome.rejected THEN Undef ELSE a.r, msg |-> outcome.msg]
      /\ UNCHANGED <<op, arg, pre, search>>

LlmSettles == \E outcome \in LlmOutcomes : Settle(outcome)

\* searchPapers(query, limit = 5) is called and sends its request
StartSearch(q) ==
  LET limit == IF q.limit = Undef THEN Num(5) ELSE q.limit IN
  /\ op = "init"
  /\ op' = "searchPapers"
  /\ arg' = Str(q.query)
  /\ search' = Search("requesting", <<PaperSearch(q.query, limit)>>, << >>, 0, << >>)
  /\ UNCHANGED <<heap, pre, ret, http>>

SearchPapers == \E q \in SearchQueries : StartSearch(q)

\* axios.get settles: the papers are returned; after a rate-limit error the
\* call waits 5 seconds; any other error is thrown again
Answer(a) ==
  /\ search.pc = "requesting"
  /\ search' = IF a.kind = "ok"
                 THEN [search EXCEPT !.pc = "returned", !.answers = Append(@, a),
                                     !.result = a.data]
               ELSE IF RateLimited(a)
                 THEN [search EXCEPT !.pc = "waiting", !.answers = Append(@, a),
                                     !.waits = @ + 1]
               ELSE [search EXCEPT !.pc = "thrown", !.answers = Append(@, a)]
  /\ UNCHANGED <<heap, op, arg, pre, ret, http>>

ServiceSettles == \E a \in ServiceAnswers : Answer(a)

\* the wait is over: return searchPapers(query, limit) sends the request again
RetryAfterWait ==
  /\ search.pc = "waiting"
  /\ Len(search.sent) < MaxAttempts
  /\ search' = [search EXCEPT !.pc = "requesting",
                              !.sent = Append(@, search.sent[Len(search.sent)])]
  /\ UNCHANGED <<heap, op, arg, pre, ret, http>>

\* the caller drops the result; the next call shares nothing with this one
Finish ==
  /\ op # "init"
  /\ heap' = << >>
  /\ op' = "init"
  /\ arg' = Undef
  /\ pre' = << >>
  /\ ret' = Outcome(Return(<< >>, Undef))
  /\ http' = NoRequest
  /\ search' = NoSearch

Next == Normalize \/ Detect \/ CleanRecord \/ CleanData \/ Validate \/ MutateInput
          \/ AnalyzeRequest \/ AnalyzeFile \/ LlmSettles
          \/ SearchPapers \/ ServiceSettles \/ RetryAfterWait \/ Finish

Spec == Init /\ [][Next]_vars

(***************************************************************************)
(* Properties.                                                             *)
(***************************************************************************)
Normalized == op = "normalizeFinancialData" /\ ~ret.thrown
Detected == op = "detectRecordType"
Cleaned == op = "cleanRecord"
\* the argument of the call and its result, as literals
Input == Deref(pre, arg)
Output == Deref(heap, ret.v)
\* the value of a key of the normalized structure
Field(k) == GetProp(heap, ret.v, k)
RecordCount == GetProp(heap, Field("metadata"), "recordCount")
\* the elements of a category of the normalized structure
Elements(c) == IF IsArray(heap, Field(c)) THEN heap[Field(c).addr].a ELSE << >>

AllDigits(s) == \A i \in 1..Len(s) : IsDigit(CharAt(s, i))
\* optional minus, one or more digits, optionally a point and further digits
StrictNumeric(s) ==
  LET body == IF CharAt(s, 1) = "-" THEN SubSeq(s, 2, Len(s)) ELSE s IN
  \E d \in 1..Len(body) :
    /\ AllDigits(SubSeq(body, 1, d))
    /\ \/ d = Len(body)
       \/ CharAt(body, d + 1) = "." /\ AllDigits(SubSeq(body, d + 2, Len(body)))
\* t is s without its leading and trailing white space
IsTrimOf(t, s) ==
  \E i \in 1..(Len(s) + 1) : \E j \in (i - 1)..Len(s) :
    /\ t = SubSeq(s, i, j)
    /\ \A k \in (1..(i - 1)) \cup ((j + 1)..Len(s)) : IsWhiteSpace(CharAt(s, k))
    /\ t # "" => ~IsWhiteSpace(CharAt(t, 1)) /\ ~IsWhiteSpace(CharAt(t, Len(t)))
Blank(s) == \A i \in 1..Len(s) : IsWhiteSpace(CharAt(s, i))

\* C1: a successfully normalized structure has metadata.recordCount equal to
\* the sum of the lengths of its invoices, expenses, payments and balances,
\* also when a category key of the input holds a value that is not an array.
C1_RecordCountIsSumOfLengths ==
  Normalized =>
    RecordCount = JsAdd(JsAdd(JsAdd(GetProp(heap, Field("invoices"), "length"),
                                    GetProp(heap, Field("expenses"), "length")),
                              GetProp(heap, Field("payments"), "length")),
                        GetProp(heap, Field("balances"), "length"))

\* a field value that the Record Cleaner would have dropped or converted
Uncleaned(v) == IsNullish(v) \/ (v.t = "string" /\ (Blank(v.s) \/ StrictNumeric(v.s)))

\* C2: in the structure normalizeFinancialData returns, no record of any
\* category has a field that is null, an empty or blank string, or a strictly
\* numeric string: the records have been through the Record Cleaner.
C2_NormalizedRecordsAreCleaned ==
  Normalized =>
    \A i \in 1..Len(Categories) :
      \A j \in 1..Len(Elements(Categories[i])) :
        LET rec == Elements(Categories[i])[j] IN
        IsObject(heap, rec) =>
          \A k \in DOMAIN heap[rec.addr].o : ~Uncleaned(heap[rec.addr].o[k])

\* C3: detectRecordType returns a category for every Raw Record and never
\* throws, so normalizing a flat sequence of Raw Records never fails.
C3_ClassificationIsTotal ==
  /\ Detected => ~ret.thrown /\ ret.v.t = "string" /\ ret.v.s \in CategoryNames
  /\ (op = "normalizeFinancialData" /\ IsArray(pre, arg)) => ~ret.thrown

\* the categories the explicit tags name
ExplicitTags ==
  [invoice |-> "invoices", bill |-> "invoices", payment |-> "payments",
   transaction |-> "payments", expense |-> "expenses", balance |-> "balances"]
InvoiceWords == {"invoice", "bill", "revenue"}
PaymentWords == {"payment", "transaction"}
BalanceWords == {"balance", "account"}
\* the record literal o carries a recognized explicit tag
Tagged(o) ==
  /\ "type" \in DOMAIN o
  /\ o["type"].t = "string"
  /\ ToLowerCase(o["type"].s) \in DOMAIN ExplicitTags
\* the `type` field of o is absent, empty or another string
Untagged(o) ==
  \/ "type" \notin DOMAIN o
  \/ o["type"].t = "string" /\ ToLowerCase(o["type"].s) \notin DOMAIN ExplicitTags
\* some field name of o contains one of the words, whatever the letter case
HasWord(o, words) ==
  \E k \in DOMAIN o : \E w \in words : Includes(ToLowerCase(k), w)
Returned(c) == ~ret.thrown /\ ret.v = Str(c)

\* C4: a record whose `type`, lower-cased, is invoice, bill, payment,
\* transaction, expense or balance is classified by that tag alone, whatever
\* its field names are.
C4_ExplicitTagPrecedence ==
  (Detected /\ Tagged(Input.o)) =>
    Returned(ExplicitTags[ToLowerCase(Input.o["type"].s)])

\* {type: "payment", invoice_number: ...} has been classified as a payment
C4_Witness ==
  /\ Detected
  /\ Input = PObj([type |-> Str("payment"), invoice_number |-> Num(1)])
  /\ Returned("payments")

\* C5: without a recognized tag the field names decide, case-insensitively
\* and in the order invoice/bill/revenue, then payment/transaction, then
\* balance/account.
C5_FieldNamePriority ==
  (Detected /\ Untagged(Input.o)) =>
    /\ HasWord(Input.o, InvoiceWords) => Returned("invoices")
    /\ (~HasWord(Input.o, InvoiceWords) /\ HasWord(Input.o, PaymentWords))
         => Returned("payments")
    /\ (~HasWord(Input.o, InvoiceWords) /\ ~HasWord(Input.o, PaymentWords)
          /\ HasWord(Input.o, BalanceWords)) => Returned("balances")

\* a record with an invoice-like and a payment-like name is an invoice
C5_Witness ==
  /\ Detected
  /\ Input = PObj([type |-> Str("credit"), BillTo |-> Num(1), payment_ref |-> Num(1)])
  /\ Returned("invoices")

\* the record literal o has no recognized tag and no classifier keyword
Unrecognizable(o) ==
  Untagged(o) /\ ~HasWord(o, InvoiceWords \cup PaymentWords \cup BalanceWords)
\* the reference r is an element of the category c of the result
InCategory(r, c) == \E j \in 1..Len(Elements(c)) : Elements(c)[j] = r

\* C6: a record with no recognized tag and no keyword in its field names is
\* classified as expense, and a flat input places it in `expenses`.
C6_DefaultBucket ==
  /\ (Detected /\ Unrecognizable(Input.o)) => Returned("expenses")
  /\ (Normalized /\ IsArray(pre, arg)) =>
       \A i \in 1..Len(pre[arg.addr].a) :
         LET r == pre[arg.addr].a[i] IN
         Unrecognizable(Deref(pre, r).o) =>
           /\ InCategory(r, "expenses")
           /\ \A c \in CategoryNames \ {"expenses"} : ~InCategory(r, c)

\* the flat input [{foo: 1, bar: 2}] has been normalized
C6_Witness ==
  /\ Normalized
  /\ Input = PArr(<<PlainRecord>>)
  /\ Len(Elements("expenses")) = 1
  /\ Deref(heap, Elements("expenses")[1]) = PlainRecord

\* C7: cleaning a cleaned record again changes nothing.
C7_CleaningIsIdempotent ==
  Cleaned =>
    LET again == cleanRecord(heap, ret.v) IN
    ~again.thrown /\ Deref(again.h, again.v) = Output

\* a record that cleaning changed: a padded numeric string became a number
C7_Witness ==
  /\ Cleaned
  /\ Input = PObj([amount |-> Str(" 12 "), note |-> Str(" paid\t")])
  /\ Output = PObj([amount |-> Num(12), note |-> Str("paid")])

\* the value v is kept by the cleaner
Survives(v) == ~IsNullish(v) /\ (v.t = "string" => ~Blank(v.s))

\* C8: the cleaned record has exactly the fields whose value is not null,
\* undefined or a blank string; strings that stay strings are stored trimmed
\* and other values are stored as they are.
C8_CleanedFields ==
  Cleaned =>
    /\ ~ret.thrown
    /\ DOMAIN Output.o = {k \in DOMAIN Input.o : Survives(Input.o[k])}
    /\ \A k \in DOMAIN Output.o :
         /\ Output.o[k].t = "string" =>
              Input.o[k].t = "string" /\ IsTrimOf(Output.o[k].s, Input.o[k].s)
         /\ Input.o[k].t # "string" => Output.o[k] = Input.o[k]

\* a null field was dropped and a padded string was trimmed
C8_Witness ==
  /\ Cleaned
  /\ Input = PObj([amount |-> Null, note |-> Str(" paid\t")])
  /\ Output = PObj([note |-> Str("paid")])

\* the numbers the example strings denote
NumericExamples ==
  [s \in {"123.45", " 12 ", "-7", "-0.50", "12."} |->
     CASE s = "123.45" -> Dec(12345, 2)
       [] s = " 12 " -> Num(12)
       [] s = "-7" -> Num(0 - 7)
       [] s = "-0.50" -> Dec(0 - 5, 1)
       [] s = "12." -> Num(12)]

\* C9: a string value becomes a number exactly when, trimmed, it is a strict
\* numeric literal; every other string stays a string; "123.45" becomes 123.45.
C9_NumericCoercion ==
  Cleaned =>
    \A k \in DOMAIN Output.o :
      Input.o[k].t = "string" =>
        /\ Output.o[k].t = "number" <=>
             \E t \in {Trim(Input.o[k].s)} :
               IsTrimOf(t, Input.o[k].s) /\ StrictNumeric(t)
        /\ Output.o[k].t \in {"number", "string"}
        /\ Input.o[k].s \in DOMAIN NumericExamples =>
             Output.o[k] = NumericExamples[Input.o[k].s]

\* {amount: "123.45", note: "abc123"} has been cleaned
C9_Witness ==
  /\ Cleaned
  /\ Input = PObj([amount |-> Str("123.45"), note |-> Str("abc123")])
  /\ Output = PObj([amount |-> Dec(12345, 2), note |-> Str("abc123")])

\* C10: cleanRecord and cleanFinancialData leave every object and sequence
\* reachable from their argument as it was, and return a new object.
C10_CleaningHasNoSideEffects ==
  op \in {"cleanRecord", "cleanFinancialData"} =>
    /\ \A a \in 1..Len(pre) : heap[a] = pre[a]
    /\ ~ret.thrown => IsRef(ret.v) /\ ret.v.addr > Len(pre)

\* a data object whose records cleaning changed
C10_Witness ==
  /\ op = "cleanFinancialData"
  /\ ~ret.thrown
  /\ Input = PObj([invoices |-> PArr(<<DirtyRecord, Null>>)])
  /\ Output = PObj([invoices |-> PArr(<<PObj([amount |-> Num(10)])>>)])

(***************************************************************************)
(* Normalization of object input and of input that is not data.            *)
(***************************************************************************)
\* the call was given an object (not a sequence, not a text)
ObjectInput == op = "normalizeFinancialData" /\ IsObject(pre, arg)
OwnKeys == DOMAIN pre[arg.addr].o

\* C11: for object input the result's invoices, expenses, payments and
\* balances are the input's sequences, element for element in the same order,
\* with no record moved to the category its tag or field names would give it;
\* a category key the input lacks becomes an empty sequence.
C11_ObjectCategoriesUnchanged ==
  ObjectInput =>
    /\ ~ret.thrown
    /\ \A c \in CategoryNames :
         /\ IsArray(pre, GetProp(pre, arg, c)) =>
              Deref(heap, Field(c)) = Deref(pre, GetProp(pre, arg, c))
         /\ c \notin OwnKeys => Deref(heap, Field(c)) = PArr(<< >>)

C11_Witness ==
  /\ ObjectInput
  /\ Input = PObj([expenses |-> PArr(<<PaymentRecord, Null>>)])
  /\ Deref(heap, Field("expenses")) = PArr(<<PaymentRecord, Null>>)
  /\ Deref(heap, Field("payments")) = PArr(<< >>)

\* the source the input carries: its own `source`, else its metadata's
MetadataSource == GetProp(pre, GetProp(pre, arg, "metadata"), "source")
CarriedSource ==
  IF Truthy(GetProp(pre, arg, "source")) THEN GetProp(pre, arg, "source")
  ELSE IF IsObject(pre, GetProp(pre, arg, "metadata")) /\ Truthy(MetadataSource)
    THEN MetadataSource
  ELSE Undef
ResultSource == GetProp(heap, Field("metadata"), "source")

\* C12: the result's metadata.source is the source the input carries, also
\* when the input carries it as metadata.source; it is 'manual_input' only
\* when the input carries none.
C12_SourceTakenFromInput ==
  (ObjectInput /\ ~ret.thrown) =>
    ResultSource = IF CarriedSource = Undef THEN Str("manual_input") ELSE CarriedSource

\* the text given to the call is not well-formed JSON
MalformedText == op = "normalizeFinancialData" /\ arg.t = "string"
                   /\ JsonParse(<< >>, arg.s).thrown

\* C13: a text that is not well-formed JSON makes the call fail with the
\* parse error itself, its message not wrapped in a normalization failure.
C13_ParseErrorSurfacedVerbatim ==
  MalformedText => ret.thrown /\ ret.msg = "Invalid JSON format"

\* the top-level value of the call: the argument, or what its text parses to
TopLevel ==
  IF arg.t = "string"
    THEN LET r == JsonParse(<< >>, arg.s) IN
         IF r.thrown THEN [h |-> << >>, v |-> Undef] ELSE [h |-> r.h, v |-> r.v]
    ELSE [h |-> pre, v |-> arg]
NotData == ~IsRef(TopLevel.v)

\* C14: the call fails for every top-level input that is neither an object
\* nor a sequence (null, a number, a boolean, a JSON string value, a text
\* that parses to one of these); it never returns a structure for them.
C14_NonObjectInputFails ==
  (op = "normalizeFinancialData" /\ NotData) => ret.thrown

(***************************************************************************)
(* Validation: the verdict, the field errors and the warnings.             *)
(***************************************************************************)
Validated == op = "validateData"
IsValid == Output.o.isValid = Bool(TRUE)
Errors == Output.o.errors.a
Warnings == Output.o.warnings.a
ErrorIndexes == 1..Len(Errors)
Warned(text) == \E i \in 1..Len(Warnings) : Warnings[i] = Str(text)

\* the records the input has under a category key
InputSeq(c) ==
  IF Input.t = "pobj" /\ c \in DOMAIN Input.o /\ Input.o[c].t = "parr"
    THEN Input.o[c].a ELSE << >>
Lacks(r, f) == r.t = "pobj" /\ f \notin DOMAIN r.o
RequiredFields(c) ==
  CASE c \in {"invoices", "expenses"} -> {"amount", "date"}
    [] c = "payments" -> {"amount", "date", "type"}
    [] c = "balances" -> {"account", "balance", "date"}
\* the required fields that records of the input lack
MissingRequired ==
  {x \in [c : CategoryNames, i : 1..(MaxRecords + 1), f : {"amount", "date", "type", "account", "balance"}] :
     /\ x.i <= Len(InputSeq(x.c))
     /\ x.f \in RequiredFields(x.c)
     /\ Lacks(InputSeq(x.c)[x.i], x.f)}
ReportsMissing(e, f) ==
  /\ "missingProperty" \in DOMAIN e.o.constraint.o
  /\ e.o.constraint.o.missingProperty = Str(f)

\* C15: for {invoices: [{date: "2024-01-01"}], expenses: []} the result is
\* not valid and has exactly one field error, whose `field` names the
\* invoice's amount; and every required field that a record lacks has one
\* field error, whose `field` is a path that names the missing field.
C15_MissingFieldIsTheErrorPath ==
  Validated =>
    /\ Input = PObj([invoices |-> PArr(<<PObj([date |-> Str("2024-01-01")])>>),
                     expenses |-> PArr(<< >>)])
         => ~IsValid /\ Len(Errors) = 1 /\ Includes(Errors[1].o.field.s, "amount")
    /\ \A x \in MissingRequired :
         /\ Cardinality({i \in ErrorIndexes :
                /\ ReportsMissing(Errors[i], x.f)
                /\ Includes(Errors[i].o.field.s, "/" \o x.c \o "/" \o NatToString(x.i - 1))}) = 1
         /\ \A i \in ErrorIndexes :
              ReportsMissing(Errors[i], x.f) => Includes(Errors[i].o.field.s, x.f)

NegativeAmount(r) ==
  r.t = "pobj" /\ "amount" \in DOMAIN r.o /\ r.o.amount.t = "number" /\ r.o.amount.m < 0
BadPaymentType(r) ==
  r.t = "pobj" /\ "type" \in DOMAIN r.o /\ r.o.type \notin {Str("inbound"), Str("outbound")}
\* a record of category c that the schema is said to reject
Rejected(c, r) ==
  \/ \E f \in RequiredFields(c) : Lacks(r, f)
  \/ c \in {"invoices", "expenses"} /\ NegativeAmount(r)
  \/ c = "payments" /\ BadPaymentType(r)
\* a field error about the lower limit of a number
LimitError(e) == "limit" \in DOMAIN e.o.constraint.o


\* C16: the result is not valid whenever an invoice or expense lacks amount
\* or date or has a negative amount, a payment lacks amount, date or type or
\* has a type other than inbound and outbound, or a balance lacks account,
\* balance or date; no field error is about the sign of a payment's amount.
C16_SchemaRejections ==
  Validated =>
    /\ (\E c \in CategoryNames : \E i \in 1..Len(InputSeq(c)) : Rejected(c, InputSeq(c)[i]))
         => ~IsValid
    /\ \A i \in ErrorIndexes :
         Includes(Errors[i].o.field.s, "/payments/") => ~LimitError(Errors[i])
    /\ Input = CategorizedData(<<[e |-> NegativePayment, c |-> "payments"]>>) => IsValid

C16_Witness ==
  /\ Validated
  /\ Input = CategorizedData(<<[e |-> NegativePayment, c |-> "payments"],
                               [e |-> RefundPayment, c |-> "payments"]>>)
  /\ ~IsValid
  /\ Len(Errors) = 1
  /\ Errors[1].o.field = Str("/payments/1/type")

\* C17: the result is not valid exactly when it has field errors, and every
\* field error has the failing path, a message, the offending value and the
\* violated constraint.
C17_FieldErrorsAreComplete ==
  Validated =>
    /\ ~IsValid <=> Errors # << >>
    /\ \A i \in ErrorIndexes :
         LET e == Errors[i].o IN
         /\ e.field.t = "string" /\ e.field.s # ""
         /\ e.message.t = "string" /\ e.message.s # ""
         /\ e.value # Undef
         /\ e.constraint.t = "pobj"

\* C18: a result that is not valid has no warnings, and the verdict is the
\* schema's alone: data that passes the schema is valid whatever warnings
\* it gets.
C18_WarningsOnlyForValidData ==
  Validated =>
    /\ ~IsValid => Warnings = << >>
    /\ IsValid <=> validateFinancialData(pre, arg).valid

C18_Witness ==
  /\ Validated
  /\ Input = CategorizedData(<<[e |-> PObj(GoodDate), c |-> "expenses"]>>)
  /\ ~IsValid
  /\ Errors # << >>
  /\ Warnings = << >>

\* C19: for valid data the cash-flow warning is given exactly when
\* `invoices` is empty and the cost-analysis warning exactly when `expenses`
\* is empty.
C19_EmptyCategoryWarnings ==
  (Validated /\ IsValid) =>
    /\ Warned(NoInvoices) <=> InputSeq("invoices") = << >>
    /\ Warned(NoExpenses) <=> InputSeq("expenses") = << >>

C19_Witness ==
  /\ Validated
  /\ IsValid
  /\ InputSeq("invoices") = << >>
  /\ InputSeq("expenses") # << >>
  /\ Warnings = <<Str(NoInvoices)>>

\* the records of invoices, expenses and payments
AllInputRecords == InputSeq("invoices") \o InputSeq("expenses") \o InputSeq("payments")
OverLimit(r) ==
  r.t = "pobj" /\ "amount" \in DOMAIN r.o /\ r.o.amount.t = "number"
    /\ r.o.amount.m > 1000000 * Pow10(r.o.amount.e)
UnusualCount ==
  Cardinality({i \in 1..Len(AllInputRecords) :
                 NegativeAmount(AllInputRecords[i]) \/ OverLimit(AllInputRecords[i])})
UnusualWarned == \E i \in 1..Len(Warnings) : Includes(Warnings[i].s, "unusual amounts")

\* C20 as stated: data with a record in invoices, expenses or payments whose
\* amount is negative or above 1,000,000, and with no defect but the sign of
\* amounts, is valid and has the warning that counts those records.
C20_UnusualAmountsNeverRejected ==
  (Validated /\ UnusualCount > 0 /\ \A i \in ErrorIndexes : LimitError(Errors[i])) =>
    IsValid /\ Warned(UnusualAmounts(UnusualCount))

\* C20, amended: valid data has the warning exactly when a record of
\* invoices, expenses or payments has an amount above 1,000,000 or (payments
\* only) a negative one, and the warning counts those records (0 and
\* 1,000,000 are not counted); a negative amount of an invoice or expense
\* makes the data not valid, with no warning.
C20_UnusualAmountsOfValidData ==
  Validated =>
    /\ (IsValid /\ UnusualCount > 0) => Warned(UnusualAmounts(UnusualCount))
    /\ (IsValid /\ UnusualCount = 0) => ~UnusualWarned
    /\ (\E c \in {"invoices", "expenses"} : \E i \in 1..Len(InputSeq(c)) :
           NegativeAmount(InputSeq(c)[i]))
         => ~IsValid /\ Warnings = << >>

C20_Witness ==
  /\ Validated
  /\ Input = CategorizedData(<<[e |-> PObj(Amount(Num(1000001)) @@ GoodDate), c |-> "invoices"],
                               [e |-> NegativePayment, c |-> "payments"]>>)
  /\ IsValid
  /\ Warnings = <<Str(NoExpenses), Str("2 records with unusual amounts detected")>>

\* the records of invoices, expenses and payments that have no `date`
DatelessCount ==
  Cardinality({i \in 1..Len(AllInputRecords) : Lacks(AllInputRecords[i], "date")})

\* C21: whenever a record of invoices, expenses or payments lacks a `date`,
\* the result has the missing-dates warning with the count of those records.
C21_MissingDatesWarned ==
  (Validated /\ DatelessCount > 0) => Warned(MissingDates(DatelessCount))

(***************************************************************************)
(* Categorizing a flat sequence.                                           *)
(***************************************************************************)
\* the call was given a sequence
FlatInput == op = "normalizeFinancialData" /\ IsArray(pre, arg)
\* the elements of s that the assignment f puts into category c, in order
RECURSIVE Assigned(_, _, _, _)
Assigned(s, f, c, i) ==
  IF i > Len(s) THEN << >>
  ELSE (IF f[i] = c THEN <<s[i]>> ELSE << >>) \o Assigned(s, f, c, i + 1)

\* C26: for a flat sequence the four category sequences of the result are a
\* partition of the input that keeps order: there is an assignment of every
\* element to exactly one category such that each category sequence is the
\* input's elements assigned to it, in input order (so the four lengths sum
\* to the input's length).
C26_CategorizingIsAnOrderedPartition ==
  FlatInput =>
    /\ ~ret.thrown
    /\ \E f \in [1..Len(Input.a) -> CategoryNames] :
         \A c \in CategoryNames :
           Deref(heap, Field(c)) = PArr(Assigned(Input.a, f, c, 1))

(***************************************************************************)
(* The result of normalization and the caller's input.                     *)
(***************************************************************************)
\* C25: the structure that normalizeFinancialData returned is a snapshot:
\* when the caller later pushes a record onto a category array of the
\* object it passed, the returned structure does not change.
C25_ResultIsASnapshot ==
  [][op' = "inputMutated" => Deref(heap', ret'.v) = Deref(heap, ret.v)]_vars

(***************************************************************************)
(* The request handlers.                                                   *)
(***************************************************************************)
Handling == op \in {"analyzeFinancialData", "analyzeFile"}
RequestBody == GetProp(pre, arg, "body")
GivenData == GetProp(pre, RequestBody, "data")
JsonFormat == GetProp(pre, RequestBody, "format") \in {Undef, Str("json")}
ResponseBody == Deref(heap, http.body)
ParsedData == Deref(heap, http.parsedData)
Validation == Deref(heap, http.validation)
ValidationPassed == http.validation # Undef /\ Validation.o.isValid = Bool(TRUE)
ValidationFailed == http.validation # Undef /\ Validation.o.isValid = Bool(FALSE)
Answered(status) == http.phase = "responded" /\ http.status = status

\* C22: the flat input of the end-to-end scenario, given as data or as JSON
\* text, normalizes to the one invoice and the one expense with no payments
\* and no balances and recordCount 2, and validateData on that structure
\* returns isValid true with no errors.
C22_EndToEndScenario ==
  (op = "analyzeFinancialData" /\ JsonFormat
     /\ Deref(pre, GivenData) \in {EndToEndInput, Str(EndToEndText)}) =>
    /\ ParsedData.o.invoices = PArr(<<InvoiceRecord>>)
    /\ ParsedData.o.expenses = PArr(<<VendorRecord>>)
    /\ ParsedData.o.payments = PArr(<< >>)
    /\ ParsedData.o.balances = PArr(<< >>)
    /\ ParsedData.o.metadata.o.recordCount = Num(2)
    /\ Validation.o.isValid = Bool(TRUE)
    /\ Validation.o.errors = PArr(<< >>)

C22_Witness ==
  /\ op = "analyzeFinancialData"
  /\ Deref(pre, GivenData) = EndToEndInput
  /\ http.phase = "awaiting"
  /\ ParsedData.o.metadata.o.recordCount = Num(2)
  /\ Validation = PObj([isValid |-> Bool(TRUE), errors |-> PArr(<< >>),
                        warnings |-> PArr(<< >>)])

\* the request has no input: `data` (or the file) is missing or falsy
InputMissing ==
  IF op = "analyzeFile" THEN ~Truthy(GetProp(pre, arg, "file")) ELSE ~Truthy(GivenData)

\* C23: in both handlers the LLM client is called only when the input was
\* present, normalization returned a structure and validateData said
\* isValid true, and then once, with that structure; when the input is
\* missing, normalization throws or validation fails, the answer is 400 and
\* the client is not called (missing data: 'Missing required field: data').
C23_ClientCalledOnlyForValidData ==
  Handling =>
    /\ http.llm # << >> =>
         /\ ~InputMissing
         /\ IsObject(heap, http.parsedData)
         /\ ValidationPassed
         /\ http.llm = <<http.parsedData>>
    /\ (InputMissing \/ http.parsedData = Undef \/ ValidationFailed) =>
         Answered(400) /\ http.llm = << >>
    /\ (op = "analyzeFinancialData" /\ InputMissing) =>
         ResponseBody.o.error = Str("Missing required field: data")

C23_Witness ==
  /\ op = "analyzeFile"
  /\ ~InputMissing
  /\ ValidationFailed
  /\ Answered(400)
  /\ ResponseBody.o.error = Str("Data validation failed")
  /\ http.llm = << >>

\* the structure that the request's data normalizes to
NormalizedRequest ==
  LET csv == parseCSV(pre, GivenData) IN
  IF JsonFormat THEN normalizeFinancialData(pre, GivenData)
  ELSE IF csv.thrown THEN csv
  ELSE normalizeFinancialData(csv.h, csv.v)
\* the request's data is present, normalizes and passes the schema
ValidRequest ==
  /\ op = "analyzeFinancialData"
  /\ Truthy(GivenData)
  /\ ~NormalizedRequest.thrown
  /\ validateFinancialData(NormalizedRequest.h, NormalizedRequest.v).valid

\* C24: a request whose data normalizes and passes validation, with or
\* without warnings, is never answered 400; when the LLM client resolves the
\* answer is 200 with success true, the normalized data and the analysis
\* that the client returned.
C24_WarningsNeverBlock ==
  ValidRequest =>
    /\ http.llm = <<http.parsedData>>
    /\ ParsedData = Deref(NormalizedRequest.h, NormalizedRequest.v)
    /\ http.phase = "responded" =>
         IF ret.thrown THEN http.status = 500
         ELSE /\ http.status = 200
              /\ ResponseBody.o.success = Bool(TRUE)
              /\ ResponseBody.o.data = ParsedData
              /\ ResponseBody.o.analysis = Deref(heap, ret.v)

C24_Witness ==
  /\ ValidRequest
  /\ Validation.o.warnings.a = <<Str(NoExpenses), Str(UnusualAmounts(1))>>
  /\ Answered(200)
  /\ ResponseBody.o.success = Bool(TRUE)
  /\ "kpis" \in DOMAIN ResponseBody.o.analysis.o

\* the flat sequence given as data has a record tagged payment or transaction
HasTaggedPayment ==
  /\ op = "analyzeFinancialData"
  /\ JsonFormat
  /\ IsArray(pre, GivenData)
  /\ \E i \in 1..Len(Deref(pre, GivenData).a) :
       LET r == Deref(pre, GivenData).a[i] IN
       r.t = "pobj" /\ Tagged(r.o) /\ ToLowerCase(r.o.type.s) \in PaymentWords

\* C27: a flat input with a record that its tag (payment or transaction, in
\* any letter case) routes to payments never passes validation: validateData
\* on its normalized structure returns isValid false, so the handler answers
\* 400 and does not call the LLM client.
C27_TaggedPaymentNeverValidates ==
  HasTaggedPayment =>
    /\ ~ValidationPassed
    /\ http.parsedData # Undef => ValidationFailed
    /\ Answered(400)
    /\ http.llm = << >>

C27_Witness ==
  /\ HasTaggedPayment
  /\ Len(Deref(pre, GivenData).a) = 2
  /\ http.parsedData # Undef
  /\ ParsedData.o.invoices = PArr(<<InvoiceRecord>>)
  /\ Len(ParsedData.o.payments.a) = 1
  /\ ParsedData.o.payments.a[1].o.type = Str("Transaction")
  /\ ValidationFailed
  /\ Len(Validation.o.errors.a) = 1
  /\ Validation.o.errors.a[1].o.field = Str("/payments/0/type")
  /\ ResponseBody.o.error = Str("Data validation failed")

(***************************************************************************)
(* searchPapers.                                                           *)
(***************************************************************************)
Searching == op = "searchPapers"
SentCount == Len(search.sent)
AnswerCount == Len(search.answers)
LastAnswer == search.answers[AnswerCount]
Is429(a) == a.kind = "error" /\ a.status = 429

\* C28: searchPapers sends a further request only after an answer with
\* status 429 and a wait, and it is the same query again; however many 429
\* answers came, it has not given up; it returns the data of the first
\* answer that succeeds; after any other error it throws without a further
\* request; so it has ended only when the last answer is not a 429.
C28_RetryOnlyOnRateLimit ==
  Searching =>
    /\ \A i \in 1..AnswerCount : i < AnswerCount => Is429(search.answers[i])
    /\ \A i \in 1..SentCount : search.sent[i] = search.sent[1]
    /\ search.sent[1].query = arg.s
    /\ search.waits = Cardinality({i \in 1..AnswerCount : Is429(search.answers[i])})
    /\ SentCount = AnswerCount + (IF search.pc = "requesting" THEN 1 ELSE 0)
    /\ (AnswerCount > 0 /\ Is429(LastAnswer)) => search.pc \in {"waiting", "requesting"}
    /\ search.pc = "waiting" => (AnswerCount > 0 /\ Is429(LastAnswer))
    /\ (search.pc = "returned") <=> (AnswerCount > 0 /\ LastAnswer.kind = "ok")
    /\ search.pc = "returned" => search.result = LastAnswer.data
    /\ (search.pc = "thrown") <=>
         (AnswerCount > 0 /\ LastAnswer.kind # "ok" /\ ~Is429(LastAnswer))

C28_Witness ==
  /\ Searching
  /\ search.pc = "returned"
  /\ SentCount = MaxAttempts
  /\ search.waits = MaxAttempts - 1
  /\ search.result = <<"paper A", "paper B">>
====
